---- MODULE Spec2Model ----
(***************************************************************************)
(* Model of the streaming record pipeline of the ETL repository:          *)
(* ETLProcessor (src/src/processing/etl_processor.py), its lifecycle      *)
(* calls, the consume-loop tasks that start() creates on the asyncio      *)
(* event loop, and the raw-data topic they drain.                         *)
(*                                                                         *)
(* Scheduling: one event loop.  A coroutine keeps control until it        *)
(* reaches an await that suspends.  ctl names the task that holds the     *)
(* loop (0: the loop is free).  The consumer iterator and producer.send   *)
(* are plain blocking calls, and the three stages are pure per-record     *)
(* functions, so the only await of the consume loop that gives the loop   *)
(* up is the warehouse load.  A task waiting in the consumer for a        *)
(* message keeps ctl and nothing else runs.                               *)
(***************************************************************************)
EXTENDS Integers, Sequences, FiniteSets, TLC

\* ------------------------------------------------------------------ bounds
MaxRecords == 2   \* records on the raw-data topic in one run
MaxCalls == 3     \* initialize/start/shutdown calls issued in one run
MaxBatch == 2     \* records in the list handed to process_batch
MaxBatchCalls == 2 \* process_batch calls issued in one run
MaxMgrCalls == 3   \* coordinator initialize/start/shutdown calls in one run
MaxTicks == 2      \* aggregation ticks performed in one run
MaxIngests == 1    \* ingest_from_source calls issued in one run

\* ------------------------------------------------------------- data model
Counters ==
    {"records_processed", "records_transformed", "records_validated",
     "records_enriched", "processing_errors"}

\* self.stats: the integer counters and the cumulative processing time
\* (last_processed_batch is never written by the processor).
StatKeys == Counters \cup {"processing_time"}

\* time.time() - start_time of one record, in clock ticks.
Elapsed == {0, 1}

\* A raw record, abstracted to what the pipeline's control flow depends on:
\* the stage that rejects it (bad) and its 'id' field ("absent", a string,
\* or "nonstr": a value without .encode, e.g. an integer).
RecordKinds ==
    {[bad |-> "none", id |-> "a", stage |-> "raw"],
     [bad |-> "none", id |-> "absent", stage |-> "raw"],
     [bad |-> "none", id |-> "nonstr", stage |-> "raw"],
     [bad |-> "validate", id |-> "a", stage |-> "raw"],
     [bad |-> "transform", id |-> "a", stage |-> "raw"],
     [bad |-> "enrich", id |-> "a", stage |-> "raw"]}

\* The raw-data topic is a durable queue read from the earliest offset: the
\* records of a run are those the ingestors put on it, in arrival order.  A
\* task that has drained them waits in the consumer for a next one.
Streams == UNION {[1..n -> RecordKinds] : n \in 0..MaxRecords}

NoRecord == [bad |-> "none", id |-> "absent", stage |-> "none"]

\* The three stages: single record in, a new record or a failure out.
validate_record(r) ==
    IF r.bad = "validate"
    THEN [ok |-> FALSE, rec |-> r, cause |-> "ValidationFailure"]
    ELSE [ok |-> TRUE, rec |-> [r EXCEPT !.stage = "validated"], cause |-> "none"]

transform_record(r) ==
    IF r.bad = "transform"
    THEN [ok |-> FALSE, rec |-> r, cause |-> "TransformFailure"]
    ELSE [ok |-> TRUE, rec |-> [r EXCEPT !.stage = "transformed"], cause |-> "none"]

enrich_record(r) ==
    IF r.bad = "enrich"
    THEN [ok |-> FALSE, rec |-> r, cause |-> "EnrichFailure"]
    ELSE [ok |-> TRUE, rec |-> [r EXCEPT !.stage = "enriched"], cause |-> "none"]

\* key=record.get('id', 'unknown').encode('utf-8')
KeyEncodable(r) == r.id # "nonstr"
MessageKey(r) == IF r.id = "absent" THEN "unknown" ELSE r.id

\* ------------------------------------------------------------------ state
VARIABLES
    is_running,       \* self.is_running
    kafka_consumer,   \* self.kafka_consumer: 0 (None) or an index of consumers
    kafka_producer,   \* self.kafka_producer: "None", "open" or "closed"
    wired,            \* validator, transformer and enricher are constructed
    stats,            \* self.stats
    consumers,        \* every KafkaConsumer object created: "open" / "closed"
    raw,              \* the raw-data topic, in arrival order
    offset,           \* records of raw already delivered to the group
    tasks,            \* the _process_data_stream tasks created by start()
    ctl,              \* the task holding the event loop, 0 when it is free
    published,        \* sends accepted by the producer, in order
    load_calls,       \* warehouse_manager.load_record invocations, in order
    error_log,        \* logger.log_error calls of the record path, in order
    metrics,          \* monitor.record_metric calls, in order
    trail,            \* per record: the counters incremented for it, in order
    last_call,        \* the last lifecycle call, how it ended, the call before
    calls             \* lifecycle calls issued so far

vars ==
    <<is_running, kafka_consumer, kafka_producer, wired, stats, consumers, raw,
      offset, tasks, ctl, published, load_calls, error_log, metrics, trail,
      last_call, calls>>

\* process_batch: one list of records and what each call on it returned.
VARIABLES
    batch,            \* the records argument
    batch_calls       \* per call: were the stages wired, the returned list,
                      \* the positions skipped (log_error), did it raise

batchVars == <<batch, batch_calls>>

\* DataIngestionManager (src/src/ingestion/data_ingestion_manager.py).
VARIABLES
    mgr_is_running,   \* self.is_running
    mgr_producer,     \* self.kafka_producer: "None", "open" or "closed"
    ingestors,        \* self.ingestors: name -> the ingestor object's state
    mgr_stats,        \* self.stats
    mgr_frame,        \* the lifecycle call suspended at an ingestor await
    mgr_last,         \* the last lifecycle call that returned or raised
    mgr_calls,        \* lifecycle calls issued so far
    agg,              \* the _monitor_ingestion tasks created by start()
    ticks,            \* aggregation ticks performed so far
    mgr_metrics,      \* record_metric calls of the ticks: how many ticks
                      \* published, and the two values of the last one
    last_ingest,      \* the last ingest_from_source call and how it ended
    ingests           \* ingest_from_source calls issued so far

coordVars ==
    <<mgr_is_running, mgr_producer, ingestors, mgr_stats, mgr_frame, mgr_last,
      mgr_calls, agg, ticks, mgr_metrics, last_ingest, ingests>>

\* CSVIngestor (src/src/ingestion/csv_ingestor.py).
VARIABLES
    csv_is_running,   \* self.is_running
    csv_current_file, \* self.current_file: 0 for None, else a file's position
    csv_stats,        \* self.stats
    csv_files,        \* the *.csv files of the directory, in glob order
    csv_config,       \* the source configuration: schema and batch_size
    csv_job,          \* the ingest_data call in progress and where it stands
    csv_sent,         \* the messages sent on raw-data, oldest first
    csv_log,          \* log_error calls: the method that made each one
    csv_last,         \* how the last ingest_data call ended
    csv_calls         \* ingest_data calls issued so far

csvVars ==
    <<csv_is_running, csv_current_file, csv_stats, csv_files, csv_config,
      csv_job, csv_sent, csv_log, csv_last, csv_calls>>

\* _validate_schema as a function: its arguments and what one call gave.
VARIABLES
    df,               \* the DataFrame argument
    schema,           \* the schema argument
    validated         \* the call's outcome: not called, raised, or the frame

schemaVars == <<df, schema, validated>>

\* The status getters and the caller holding what one of them returned.
VARIABLES
    observed,         \* the component whose operations the run exercises
    orch,             \* ETLPipelineOrchestrator: is_running and the
                      \* components it has constructed so far
    view,             \* the getter called, the value it returned, and
                      \* whether the caller has written into that value
    pipe              \* main(): where it stands, the components' states, the
                      \* shutdown() invocations and the signals received

statusVars == <<observed, orch, view, pipe>>

extVars == <<csvVars, schemaVars, statusVars>>

procVars == <<is_running, kafka_consumer, kafka_producer, wired, consumers>>
histVars == <<published, load_calls, error_log, metrics>>

NewTask == [pc |-> "created", cur |-> 0, it |-> 0, rec |-> NoRecord]

TaskIds == 1..Len(tasks)

\* A record is in flight from the moment validate is entered until the
\* dual-publish step has finished.
InFlightPcs == {"validate", "transform", "enrich", "send", "load"}
InFlight(t) == tasks[t].pc \in InFlightPcs

Init ==
    /\ is_running = FALSE
    /\ kafka_consumer = 0
    /\ kafka_producer = "None"
    /\ wired = FALSE
    /\ stats = [c \in StatKeys |-> 0]
    /\ consumers = <<>>
    /\ raw \in Streams
    /\ offset = 0
    /\ tasks = <<>>
    /\ ctl = 0
    /\ published = <<>>
    /\ load_calls = <<>>
    /\ error_log = <<>>
    /\ metrics = <<>>
    /\ trail = [i \in 1..Len(raw) |-> <<>>]
    /\ last_call = [op |-> "none", fault |-> "none", raised |-> FALSE, prev |-> "none"]
    /\ calls = 0

\* -------------------------------------------------------- lifecycle calls
\* What can raise inside initialize(): constructing the stages, the consumer
\* or the producer (broker unreachable).
InitFaults == {"none", "stages", "consumer", "producer"}

\* Faulty variant: the except clause logs and returns normally.
initializeSwallows ==
    /\ ctl = 0
    /\ calls < MaxCalls
    /\ \E fault \in InitFaults :
         /\ wired' = (wired \/ fault # "stages")
         /\ IF fault \in {"stages", "consumer"}
            THEN UNCHANGED <<consumers, kafka_consumer, kafka_producer>>
            ELSE /\ consumers' = Append(consumers, "open")
                 /\ kafka_consumer' = Len(consumers) + 1
                 /\ kafka_producer' =
                        IF fault = "producer" THEN kafka_producer ELSE "open"
         /\ last_call' =
                [op |-> "initialize", fault |-> fault, raised |-> FALSE,
                 prev |-> last_call.op]
         /\ calls' = calls + 1
    /\ UNCHANGED <<is_running, stats, raw, offset, tasks, ctl, histVars, trail>>

\* initialize(): no state guard.  The stages are constructed first, then the
\* consumer, then the producer; the except clause logs and re-raises, and
\* what was assigned before the failure stays assigned.
initialize ==
    /\ ctl = 0
    /\ calls < MaxCalls
    /\ \E fault \in InitFaults :
         /\ wired' = (wired \/ fault # "stages")
         /\ IF fault \in {"stages", "consumer"}
            THEN UNCHANGED <<consumers, kafka_consumer, kafka_producer>>
            ELSE /\ consumers' = Append(consumers, "open")
                 /\ kafka_consumer' = Len(consumers) + 1
                 /\ kafka_producer' =
                        IF fault = "producer" THEN kafka_producer ELSE "open"
         /\ last_call' =
                [op |-> "initialize", fault |-> fault, raised |-> fault # "none",
                 prev |-> last_call.op]
         /\ calls' = calls + 1
    /\ UNCHANGED <<is_running, stats, raw, offset, tasks, ctl, histVars, trail>>

\* start(): no state guard.  Sets the flag and creates one more task.
start ==
    /\ ctl = 0
    /\ calls < MaxCalls
    /\ is_running' = TRUE
    /\ tasks' = Append(tasks, NewTask)
    /\ last_call' =
           [op |-> "start", fault |-> "none", raised |-> FALSE,
            prev |-> last_call.op]
    /\ calls' = calls + 1
    /\ UNCHANGED <<kafka_consumer, kafka_producer, wired, consumers, stats, raw,
                   offset, ctl, histVars, trail>>

\* Faulty variant: the except clause of shutdown re-raises, as those of initialize
\* and start do.
shutdownReraises ==
    /\ ctl = 0
    /\ calls < MaxCalls
    /\ \E fault \in {"none", "consumer", "producer"} :
         /\ fault = "consumer" =>
                kafka_consumer # 0 /\ consumers[kafka_consumer] = "open"
         /\ fault = "producer" => kafka_producer = "open"
         /\ is_running' = FALSE
         /\ consumers' =
                IF kafka_consumer # 0 /\ fault # "consumer"
                THEN [consumers EXCEPT ![kafka_consumer] = "closed"]
                ELSE consumers
         /\ kafka_producer' =
                IF kafka_producer = "open" /\ fault = "none"
                THEN "closed"
                ELSE kafka_producer
         /\ last_call' =
                [op |-> "shutdown", fault |-> fault, raised |-> fault # "none",
                 prev |-> last_call.op]
         /\ calls' = calls + 1
    /\ UNCHANGED <<kafka_consumer, wired, stats, raw, offset, tasks, ctl,
                   histVars, trail>>

\* shutdown(): clears the flag, closes the consumer, then the producer.  A
\* close that raises ends the try block; the except clause only logs.
\* Closing a handle that is already closed is a no-op.
shutdown ==
    /\ ctl = 0
    /\ calls < MaxCalls
    /\ \E fault \in {"none", "consumer", "producer"} :
         /\ fault = "consumer" =>
                kafka_consumer # 0 /\ consumers[kafka_consumer] = "open"
         /\ fault = "producer" => kafka_producer = "open"
         /\ is_running' = FALSE
         /\ consumers' =
                IF kafka_consumer # 0 /\ fault # "consumer"
                THEN [consumers EXCEPT ![kafka_consumer] = "closed"]
                ELSE consumers
         /\ kafka_producer' =
                IF kafka_producer = "open" /\ fault = "none"
                THEN "closed"
                ELSE kafka_producer
         /\ last_call' =
                [op |-> "shutdown", fault |-> fault, raised |-> FALSE,
                 prev |-> last_call.op]
         /\ calls' = calls + 1
    /\ UNCHANGED <<kafka_consumer, wired, stats, raw, offset, tasks, ctl,
                   histVars, trail>>

\* ------------------------------------------------------- consume-loop task
\* The counters a step incremented are appended to the trail of the record
\* the task was handling (observed from stats and stats').
Track(t) ==
    LET changed == {c \in Counters : stats'[c] # stats[c]} IN
    IF changed = {}
    THEN trail' = trail
    ELSE LET c == CHOOSE x \in changed : TRUE IN
         trail' = [trail EXCEPT ![tasks[t].cur] = Append(@, c)]

\* The event loop runs a task that holds it, or picks one when it is free.
Scheduled(t) == ctl \in {0, t}

Bump(c) == stats' = [stats EXCEPT ![c] = @ + 1]

\* The two log_error calls a failing record goes through: the except clause
\* of _process_record, then the one of _process_data_stream.
LogFailure(t, cause) ==
    error_log' = error_log \o
        <<[at |-> "_process_record", rec |-> tasks[t].cur, cause |-> cause],
          [at |-> "_process_data_stream", rec |-> tasks[t].cur, cause |-> cause]>>

\* Faulty variant: the failed record is handed to the stages once more.
ContinueRetries(t) ==
    /\ tasks' = [tasks EXCEPT ![t].pc = "validate"]
    /\ ctl' = t

\* The task is back at the top of its loop, still holding the event loop.
Continue(t) ==
    /\ tasks' = [tasks EXCEPT ![t] = [@ EXCEPT !.pc = "next", !.cur = 0, !.rec = NoRecord]]
    /\ ctl' = t

\* Faulty variant: the except clause of the loop re-raises, ending the task.
RecordFailedAbort(t, cause) ==
    /\ Bump("processing_errors")
    /\ LogFailure(t, cause)
    /\ tasks' = [tasks EXCEPT ![t] = [@ EXCEPT !.pc = "crashed", !.cur = 0, !.rec = NoRecord]]
    /\ ctl' = 0

\* Faulty variant: the except clause of the loop logs and continues without counting.
RecordFailedUncounted(t, cause) ==
    /\ stats' = stats
    /\ LogFailure(t, cause)
    /\ Continue(t)

\* except Exception in _process_record (log, raise) and then in
\* _process_data_stream: processing_errors += 1, log, continue.
RecordFailed(t, cause) ==
    /\ Bump("processing_errors")
    /\ LogFailure(t, cause)
    /\ Continue(t)

\* First run of the task: `for message in self.kafka_consumer` takes the
\* iterator of the consumer the attribute holds now (None: TypeError, which
\* the outer except logs and re-raises, ending the task).
TaskBegin(t) ==
    /\ Scheduled(t)
    /\ tasks[t].pc = "created"
    /\ IF kafka_consumer = 0
       THEN /\ tasks' = [tasks EXCEPT ![t].pc = "crashed"]
            /\ ctl' = 0
       ELSE /\ tasks' = [tasks EXCEPT ![t] = [@ EXCEPT !.pc = "next", !.it = kafka_consumer]]
            /\ ctl' = t
    /\ UNCHANGED <<procVars, stats, raw, offset, histVars, trail, last_call, calls>>

\* Top of the loop: next(consumer) blocks while the topic has nothing new
\* (the action is then disabled and the task keeps the loop); a closed
\* consumer ends the iteration; a delivered message is dropped by `break`
\* when is_running is false, else _process_record is entered.
TaskNext(t) ==
    /\ Scheduled(t)
    /\ tasks[t].pc = "next"
    /\ IF consumers[tasks[t].it] = "closed"
       THEN /\ tasks' = [tasks EXCEPT ![t].pc = "done"]
            /\ ctl' = 0
            /\ UNCHANGED offset
       ELSE /\ offset < Len(raw)
            /\ offset' = offset + 1
            /\ tasks' = [tasks EXCEPT ![t] =
                   IF is_running
                   THEN [@ EXCEPT !.pc = "validate", !.cur = offset + 1,
                                  !.rec = raw[offset + 1]]
                   ELSE [@ EXCEPT !.pc = "done"]]
            /\ ctl' = IF is_running THEN t ELSE 0
    /\ UNCHANGED <<procVars, stats, raw, histVars, trail, last_call, calls>>

\* Faulty variant: the validate step increments the wrong key of stats.
TaskValidateMiscounts(t) ==
    /\ Scheduled(t)
    /\ tasks[t].pc = "validate"
    /\ LET out == validate_record(tasks[t].rec) IN
       IF out.ok
       THEN /\ Bump("records_transformed")
            /\ tasks' = [tasks EXCEPT ![t] = [@ EXCEPT !.pc = "transform", !.rec = out.rec]]
            /\ ctl' = t
            /\ UNCHANGED error_log
       ELSE RecordFailed(t, out.cause)
    /\ Track(t)
    /\ UNCHANGED <<procVars, raw, offset, published, load_calls, metrics, last_call,
                   calls>>

TaskValidate(t) ==
    /\ Scheduled(t)
    /\ tasks[t].pc = "validate"
    /\ LET out == validate_record(tasks[t].rec) IN
       IF out.ok
       THEN /\ Bump("records_validated")
            /\ tasks' = [tasks EXCEPT ![t] = [@ EXCEPT !.pc = "transform", !.rec = out.rec]]
            /\ ctl' = t
            /\ UNCHANGED error_log
       ELSE RecordFailed(t, out.cause)
    /\ Track(t)
    /\ UNCHANGED <<procVars, raw, offset, published, load_calls, metrics, last_call,
                   calls>>

\* Faulty variant: records_transformed is incremented before the stage is awaited,
\* so a record that fails transform is counted as transformed.
TaskTransformCountsEarly(t) ==
    /\ Scheduled(t)
    /\ tasks[t].pc = "transform"
    /\ LET out == transform_record(tasks[t].rec) IN
       IF out.ok
       THEN /\ Bump("records_transformed")
            /\ tasks' = [tasks EXCEPT ![t] = [@ EXCEPT !.pc = "enrich", !.rec = out.rec]]
            /\ ctl' = t
            /\ UNCHANGED error_log
       ELSE /\ stats' = [stats EXCEPT !["records_transformed"] = @ + 1,
                                      !["processing_errors"] = @ + 1]
            /\ LogFailure(t, out.cause)
            /\ Continue(t)
    /\ Track(t)
    /\ UNCHANGED <<procVars, raw, offset, published, load_calls, metrics, last_call,
                   calls>>

TaskTransform(t) ==
    /\ Scheduled(t)
    /\ tasks[t].pc = "transform"
    /\ LET out == transform_record(tasks[t].rec) IN
       IF out.ok
       THEN /\ Bump("records_transformed")
            /\ tasks' = [tasks EXCEPT ![t] = [@ EXCEPT !.pc = "enrich", !.rec = out.rec]]
            /\ ctl' = t
            /\ UNCHANGED error_log
       ELSE RecordFailed(t, out.cause)
    /\ Track(t)
    /\ UNCHANGED <<procVars, raw, offset, published, load_calls, metrics, last_call,
                   calls>>

\* Faulty variant: the task gives the event loop up between enrich and the publish.
TaskEnrichYields(t) ==
    /\ Scheduled(t)
    /\ tasks[t].pc = "enrich"
    /\ LET out == enrich_record(tasks[t].rec) IN
       IF out.ok
       THEN /\ Bump("records_enriched")
            /\ tasks' = [tasks EXCEPT ![t] = [@ EXCEPT !.pc = "send", !.rec = out.rec]]
            /\ ctl' = 0
            /\ UNCHANGED error_log
       ELSE RecordFailed(t, out.cause)
    /\ Track(t)
    /\ UNCHANGED <<procVars, raw, offset, published, load_calls, metrics, last_call,
                   calls>>

\* enrich returns; the task goes on to _send_to_processed_topic.
TaskEnrich(t) ==
    /\ Scheduled(t)
    /\ tasks[t].pc = "enrich"
    /\ LET out == enrich_record(tasks[t].rec) IN
       IF out.ok
       THEN /\ Bump("records_enriched")
            /\ tasks' = [tasks EXCEPT ![t] = [@ EXCEPT !.pc = "send", !.rec = out.rec]]
            /\ ctl' = t
            /\ UNCHANGED error_log
       ELSE RecordFailed(t, out.cause)
    /\ Track(t)
    /\ UNCHANGED <<procVars, raw, offset, published, load_calls, metrics, last_call,
                   calls>>

\* Step 4, then the call of step 5, whose await suspends the task.  send
\* raises when the producer is None or closed, when the key cannot be
\* encoded, or when the client fails; the exception leaves _process_record
\* before load_record is called.
TaskSend(t) ==
    /\ Scheduled(t)
    /\ tasks[t].pc = "send"
    /\ \E clientOk \in BOOLEAN :
         IF kafka_producer = "open" /\ KeyEncodable(tasks[t].rec) /\ clientOk
         THEN /\ published' = Append(published,
                     [rec |-> tasks[t].cur, key |-> MessageKey(tasks[t].rec),
                      value |-> tasks[t].rec])
              /\ load_calls' = Append(load_calls, tasks[t].cur)
              /\ tasks' = [tasks EXCEPT ![t].pc = "load"]
              /\ ctl' = 0
              /\ UNCHANGED <<stats, error_log>>
         ELSE /\ RecordFailed(t, "SinkFailure:publish")
              /\ UNCHANGED <<published, load_calls>>
    /\ Track(t)
    /\ UNCHANGED <<procVars, raw, offset, metrics, last_call, calls>>

\* load_record returns or raises.  On return the elapsed time is added to
\* processing_time, the two metrics are recorded, _process_record returns
\* and the loop counts the record as processed.
TaskLoad(t) ==
    /\ Scheduled(t)
    /\ tasks[t].pc = "load"
    /\ \E loaded \in BOOLEAN :
         IF loaded
         THEN /\ \E dt \in Elapsed :
                   /\ stats' = [stats EXCEPT !["processing_time"] = @ + dt,
                                             !["records_processed"] = @ + 1]
                   /\ metrics' = metrics \o
                          <<[name |-> "etl_processing_time", value |-> dt],
                            [name |-> "etl_records_processed", value |-> 1]>>
              /\ tasks' = [tasks EXCEPT ![t] = [@ EXCEPT !.pc = "next", !.cur = 0, !.rec = NoRecord]]
              /\ ctl' = t
              /\ UNCHANGED error_log
         ELSE /\ RecordFailed(t, "SinkFailure:warehouse")
              /\ UNCHANGED metrics
    /\ Track(t)
    /\ UNCHANGED <<procVars, raw, offset, published, load_calls, last_call, calls>>

\* ------------------------------------------------------------ process_batch
Batches == UNION {[1..n -> RecordKinds] : n \in 0..MaxBatch}

\* The body of the per-record try: validate, transform, enrich, each on the
\* result of the one before.  Before initialize() self.validator is None and
\* the first call raises AttributeError inside the try.
RunStages(r) ==
    IF ~wired
    THEN [ok |-> FALSE, rec |-> r, cause |-> "AttributeError"]
    ELSE LET v == validate_record(r) IN
         IF ~v.ok THEN v
         ELSE LET x == transform_record(v.rec) IN
              IF ~x.ok THEN x ELSE enrich_record(x.rec)

\* for record in records: try ... append / except ... log_error, continue
RECURSIVE BatchLoop(_, _, _)
BatchLoop(records, i, acc) ==
    IF i > Len(records) THEN acc
    ELSE LET s == RunStages(records[i]) IN
         BatchLoop(records, i + 1,
                   IF s.ok
                   THEN [acc EXCEPT !.out = Append(@, s.rec)]
                   ELSE [acc EXCEPT !.skipped = Append(@, i)])

\* Faulty variant: the first failing record ends the loop and the exception
\* reaches the caller.
RECURSIVE BatchLoopAborts(_, _, _)
BatchLoopAborts(records, i, acc) ==
    IF i > Len(records) THEN acc
    ELSE LET s == RunStages(records[i]) IN
         IF s.ok
         THEN BatchLoopAborts(records, i + 1, [acc EXCEPT !.out = Append(@, s.rec)])
         ELSE [acc EXCEPT !.skipped = Append(@, i), !.raised = TRUE]

NewBatchResult == [wired |-> wired, out |-> <<>>, skipped |-> <<>>, raised |-> FALSE]

\* Faulty variant: a failing record aborts the batch.
process_batchAborts ==
    /\ ctl = 0
    /\ Len(batch_calls) < MaxBatchCalls
    /\ batch_calls' = Append(batch_calls, BatchLoopAborts(batch, 1, NewBatchResult))
    /\ UNCHANGED <<vars, batch, coordVars, extVars>>

\* Faulty variant: processed_records outlives the call, so a second call
\* appends to what the first one returned.
process_batchAccumulates ==
    /\ ctl = 0
    /\ Len(batch_calls) < MaxBatchCalls
    /\ LET before == IF batch_calls = <<>> THEN <<>>
                     ELSE batch_calls[Len(batch_calls)].out
       IN batch_calls' =
              Append(batch_calls,
                     BatchLoop(batch, 1, [NewBatchResult EXCEPT !.out = before]))
    /\ UNCHANGED <<vars, batch, coordVars, extVars>>

\* Faulty variant: the survivors are counted in the live statistics.
process_batchCounts ==
    /\ ctl = 0
    /\ Len(batch_calls) < MaxBatchCalls
    /\ batch_calls' = Append(batch_calls, BatchLoop(batch, 1, NewBatchResult))
    /\ stats' = [stats EXCEPT !["records_processed"] =
                      @ + Len(BatchLoop(batch, 1, NewBatchResult).out)]
    /\ UNCHANGED <<procVars, raw, offset, tasks, ctl, histVars, trail,
                   last_call, calls, batch, coordVars, extVars>>

\* process_batch(records): a fresh result list per call; no counter of
\* self.stats, no sink and no metric is touched.  The stage awaits do not
\* suspend, so the call runs to its return without giving up the loop.
process_batch ==
    /\ ctl = 0
    /\ Len(batch_calls) < MaxBatchCalls
    /\ batch_calls' = Append(batch_calls, BatchLoop(batch, 1, NewBatchResult))
    /\ UNCHANGED <<vars, batch, coordVars, extVars>>

BatchIdle == batch = <<>> /\ batch_calls = <<>>

\* ----------------------------------------------------- ingestion coordinator
\* asyncio.sleep(30) after a good tick, asyncio.sleep(60) after a failed one.
TickPeriod == 30
BackoffPeriod == 60

\* self.ingestors, in the order _initialize_ingestors inserts the keys.
Kinds == <<"csv", "api", "web_scraper", "streaming">>
KindSet == {Kinds[i] : i \in 1..Len(Kinds)}
\* source_type arguments: two registered names and one that is never registered.
SourceKinds == {"csv", "api", "ftp"}
Configs == {"c1", "c2"}

\* An ingestor object as constructed: its lifecycle flags, the two counters
\* of its stats the coordinator's operations depend on, how often its
\* ingest_data was invoked and the config of the last invocation.
NewIngestor ==
    [initialized |-> FALSE, is_running |-> FALSE, records_ingested |-> 0,
     processing_errors |-> 0, invoked |-> 0, config |-> "none"]

\* CSVIngestor's initialize/start/shutdown only log and set is_running: they
\* cannot fail and do not suspend.  The other three ingestors are capability
\* implementations whose calls may fail and may suspend.
Registered == DOMAIN ingestors
\* The capability ingestor whose lifecycle calls fail in the runs explored.
Flaky == {"api"}
Outcomes(n) == {TRUE} \cup {FALSE : x \in {n} \cap Flaky}

NoFrame == [op |-> "none", i |-> 0, visited |-> {}]
NoCall == [op |-> "none", raised |-> FALSE, failed |-> "none", visited |-> {}]

\* The call returns (raised = FALSE) or raises to its caller.
Finish(op, raised, failed, visited) ==
    /\ mgr_last' = [op |-> op, raised |-> raised, failed |-> failed, visited |-> visited]
    /\ mgr_frame' = NoFrame

Proceed(n) ==
    /\ mgr_frame' = [mgr_frame EXCEPT !.i = @ + 1, !.visited = @ \cup {n}]
    /\ UNCHANGED mgr_last

\* The coordinator's lifecycle calls are awaited one after another by their
\* caller: a call starts when no other is suspended.
MgrCall ==
    /\ mgr_frame = NoFrame
    /\ mgr_calls < MaxMgrCalls
    /\ mgr_calls' = mgr_calls + 1

\* initialize(): create the producer, then _initialize_ingestors(): construct
\* the four ingestors, then initialize each in turn.  Runs up to the first
\* await that may suspend (the API ingestor's initialize).
MgrInitialize ==
    /\ MgrCall
    /\ \E ok \in BOOLEAN :
          IF ok
          THEN /\ mgr_producer' = "open"
               /\ ingestors' =
                      [n \in KindSet |->
                          IF n = "csv" THEN [NewIngestor EXCEPT !.initialized = TRUE]
                          ELSE NewIngestor]
               /\ mgr_frame' = [op |-> "initialize", i |-> 2, visited |-> {"csv"}]
               /\ UNCHANGED mgr_last
          ELSE /\ Finish("initialize", TRUE, "producer", {})
               /\ UNCHANGED <<mgr_producer, ingestors>>
    /\ UNCHANGED <<mgr_is_running, mgr_stats, agg, ticks, mgr_metrics,
                   last_ingest, ingests, vars, batchVars, extVars>>

\* Faulty variant: a failing ingestor initialize is skipped over.
MgrInitializeStepSwallows ==
    /\ mgr_frame.op = "initialize"
    /\ LET n == Kinds[mgr_frame.i]
           v == mgr_frame.visited
       IN \E ok \in Outcomes(n) :
              /\ ingestors' = [ingestors EXCEPT ![n].initialized = ok]
              /\ IF mgr_frame.i = Len(Kinds)
                 THEN Finish("initialize", FALSE, IF ok THEN "none" ELSE n, v \cup {n})
                 ELSE Proceed(n)
    /\ UNCHANGED <<mgr_is_running, mgr_producer, mgr_stats, mgr_calls, agg, ticks,
                   mgr_metrics, last_ingest, ingests, vars, batchVars, extVars>>

\* for name, ingestor in self.ingestors.items(): await ingestor.initialize()
\* The first failure leaves the loop and is re-raised by initialize().
MgrInitializeStep ==
    /\ mgr_frame.op = "initialize"
    /\ LET n == Kinds[mgr_frame.i]
           v == mgr_frame.visited
       IN \E ok \in Outcomes(n) :
              IF ok
              THEN /\ ingestors' = [ingestors EXCEPT ![n].initialized = TRUE]
                   /\ IF mgr_frame.i = Len(Kinds)
                      THEN Finish("initialize", FALSE, "none", v \cup {n})
                      ELSE Proceed(n)
              ELSE /\ Finish("initialize", TRUE, n, v)
                   /\ UNCHANGED ingestors
    /\ UNCHANGED <<mgr_is_running, mgr_producer, mgr_stats, mgr_calls, agg, ticks,
                   mgr_metrics, last_ingest, ingests, vars, batchVars, extVars>>

NewAgg == [pc |-> "created", wait |-> 0, last |-> "none", bad |-> 0]
AggIds == 1..Len(agg)

\* start(): no state guard.  is_running = True, then each ingestor's start
\* followed by the append of its name, then create_task(_monitor_ingestion).
MgrStart ==
    /\ MgrCall
    /\ mgr_is_running' = TRUE
    /\ IF Registered = {}
       THEN /\ agg' = Append(agg, NewAgg)
            /\ Finish("start", FALSE, "none", {})
            /\ UNCHANGED <<ingestors, mgr_stats>>
       ELSE /\ ingestors' = [ingestors EXCEPT !["csv"].is_running = TRUE]
            /\ mgr_stats' = [mgr_stats EXCEPT !.active_sources = Append(@, "csv")]
            /\ mgr_frame' = [op |-> "start", i |-> 2, visited |-> {"csv"}]
            /\ UNCHANGED <<agg, mgr_last>>
    /\ UNCHANGED <<mgr_producer, ticks, mgr_metrics, last_ingest, ingests, vars,
                   batchVars, extVars>>

MgrStartStep ==
    /\ mgr_frame.op = "start"
    /\ LET n == Kinds[mgr_frame.i]
           v == mgr_frame.visited
       IN \E ok \in Outcomes(n) :
              IF ok
              THEN /\ ingestors' = [ingestors EXCEPT ![n].is_running = TRUE]
                   /\ mgr_stats' = [mgr_stats EXCEPT !.active_sources = Append(@, n)]
                   /\ IF mgr_frame.i = Len(Kinds)
                      THEN /\ agg' = Append(agg, NewAgg)
                           /\ Finish("start", FALSE, "none", v \cup {n})
                      ELSE /\ Proceed(n)
                           /\ UNCHANGED agg
              ELSE /\ Finish("start", TRUE, n, v)
                   /\ UNCHANGED <<ingestors, mgr_stats, agg>>
    /\ UNCHANGED <<mgr_is_running, mgr_producer, mgr_calls, ticks, mgr_metrics,
                   last_ingest, ingests, vars, batchVars, extVars>>

\* if self.kafka_producer: self.kafka_producer.close()
Released(p) == IF p = "None" THEN "None" ELSE "closed"

\* Faulty variant: the channel is released on entry, before the ingestors.
MgrShutdownReleasesFirst ==
    /\ MgrCall
    /\ mgr_is_running' = FALSE
    /\ mgr_producer' = Released(mgr_producer)
    /\ IF Registered = {}
       THEN /\ Finish("shutdown", FALSE, "none", {})
            /\ UNCHANGED ingestors
       ELSE /\ ingestors' = [ingestors EXCEPT !["csv"].is_running = FALSE]
            /\ mgr_frame' = [op |-> "shutdown", i |-> 2, visited |-> {"csv"}]
            /\ UNCHANGED mgr_last
    /\ UNCHANGED <<mgr_stats, agg, ticks, mgr_metrics, last_ingest, ingests, vars,
                   batchVars, extVars>>

\* shutdown(): is_running = False, then each ingestor's shutdown, then the
\* producer close, all inside one try whose except clause only logs.  visited
\* collects the ingestors whose shutdown has been called.
MgrShutdown ==
    /\ MgrCall
    /\ mgr_is_running' = FALSE
    /\ IF Registered = {}
       THEN /\ mgr_producer' = Released(mgr_producer)
            /\ Finish("shutdown", FALSE, "none", {})
            /\ UNCHANGED ingestors
       ELSE /\ ingestors' = [ingestors EXCEPT !["csv"].is_running = FALSE]
            /\ mgr_frame' = [op |-> "shutdown", i |-> 2, visited |-> {"csv"}]
            /\ UNCHANGED <<mgr_producer, mgr_last>>
    /\ UNCHANGED <<mgr_stats, agg, ticks, mgr_metrics, last_ingest, ingests, vars,
                   batchVars, extVars>>

MgrShutdownStep ==
    /\ mgr_frame.op = "shutdown"
    /\ LET n == Kinds[mgr_frame.i]
           v == mgr_frame.visited \cup {n}
       IN \E ok \in Outcomes(n) :
              IF ok
              THEN /\ ingestors' = [ingestors EXCEPT ![n].is_running = FALSE]
                   /\ IF mgr_frame.i = Len(Kinds)
                      THEN /\ mgr_producer' = Released(mgr_producer)
                           /\ Finish("shutdown", FALSE, "none", v)
                      ELSE /\ Proceed(n)
                           /\ UNCHANGED mgr_producer
              ELSE /\ Finish("shutdown", FALSE, n, v)
                   /\ UNCHANGED <<ingestors, mgr_producer>>
    /\ UNCHANGED <<mgr_is_running, mgr_stats, mgr_calls, agg, ticks, mgr_metrics,
                   last_ingest, ingests, vars, batchVars, extVars>>

\* sum(ingestor.get_stats().get("records_ingested", 0) for ... .values())
RECURSIVE SumFrom(_)
SumFrom(i) ==
    IF i > Len(Kinds) THEN 0
    ELSE (IF Kinds[i] \in Registered THEN ingestors[Kinds[i]].records_ingested ELSE 0)
         + SumFrom(i + 1)
total_records == SumFrom(1)

AggReady(t) == t \in AggIds /\ agg[t].pc \in {"created", "sleeping"}

\* while self.is_running: evaluated false when the task first runs or wakes.
AggExit(t) ==
    /\ AggReady(t)
    /\ ~mgr_is_running
    /\ agg' = [agg EXCEPT ![t].pc = "done"]
    /\ UNCHANGED <<mgr_is_running, mgr_producer, ingestors, mgr_stats, mgr_frame,
                   mgr_last, mgr_calls, ticks, mgr_metrics, last_ingest, ingests,
                   vars, batchVars, extVars>>

\* Faulty variant: an exception inside a tick ends the task.
AggTickFailureEnds(t) ==
    /\ AggReady(t)
    /\ mgr_is_running
    /\ ticks < MaxTicks
    /\ ticks' = ticks + 1
    /\ \E ok \in {TRUE} \cup {FALSE : n \in Registered} :
          IF ok
          THEN /\ mgr_stats' = [mgr_stats EXCEPT !.total_records_ingested = total_records]
               /\ mgr_metrics' =
                      [n |-> mgr_metrics.n + 1, total |-> total_records,
                       active |-> Len(mgr_stats.active_sources)]
               /\ agg' = [agg EXCEPT ![t] = [@ EXCEPT !.pc = "sleeping",
                                                      !.wait = TickPeriod,
                                                      !.last = "ok"]]
          ELSE /\ agg' = [agg EXCEPT ![t] = [@ EXCEPT !.pc = "done",
                                                      !.last = "failed",
                                                      !.bad = @ + 1]]
               /\ UNCHANGED <<mgr_stats, mgr_metrics>>
    /\ UNCHANGED <<mgr_is_running, mgr_producer, ingestors, mgr_frame, mgr_last,
                   mgr_calls, last_ingest, ingests, vars, batchVars, extVars>>

\* Faulty variant: the tick publishes a sum it began before the first
\* ingestor's counter was read.
AggTickPartialSum(t) ==
    /\ AggReady(t)
    /\ mgr_is_running
    /\ ticks < MaxTicks
    /\ ticks' = ticks + 1
    /\ \E ok \in {TRUE} \cup {FALSE : n \in Registered} :
          IF ok
          THEN /\ mgr_stats' = [mgr_stats EXCEPT !.total_records_ingested = SumFrom(2)]
               /\ mgr_metrics' =
                      [n |-> mgr_metrics.n + 1, total |-> SumFrom(2),
                       active |-> Len(mgr_stats.active_sources)]
               /\ agg' = [agg EXCEPT ![t] = [@ EXCEPT !.pc = "sleeping",
                                                      !.wait = TickPeriod,
                                                      !.last = "ok"]]
          ELSE /\ agg' = [agg EXCEPT ![t] = [@ EXCEPT !.pc = "sleeping",
                                                      !.wait = BackoffPeriod,
                                                      !.last = "failed",
                                                      !.bad = @ + 1]]
               /\ UNCHANGED <<mgr_stats, mgr_metrics>>
    /\ UNCHANGED <<mgr_is_running, mgr_producer, ingestors, mgr_frame, mgr_last,
                   mgr_calls, last_ingest, ingests, vars, batchVars, extVars>>

\* One iteration of the loop body, from the while test to the sleep.  Reading
\* a capability ingestor's stats can fail; the failure is caught and logged
\* before anything is written, and the task sleeps the longer interval.
\* monitor.record_metric is fire-and-forget and does not fail.
AggTick(t) ==
    /\ AggReady(t)
    /\ mgr_is_running
    /\ ticks < MaxTicks
    /\ ticks' = ticks + 1
    /\ \E ok \in {TRUE} \cup {FALSE : n \in Registered} :
          IF ok
          THEN /\ mgr_stats' = [mgr_stats EXCEPT !.total_records_ingested = total_records]
               /\ mgr_metrics' =
                      [n |-> mgr_metrics.n + 1, total |-> total_records,
                       active |-> Len(mgr_stats.active_sources)]
               /\ agg' = [agg EXCEPT ![t] = [@ EXCEPT !.pc = "sleeping",
                                                      !.wait = TickPeriod,
                                                      !.last = "ok"]]
          ELSE /\ agg' = [agg EXCEPT ![t] = [@ EXCEPT !.pc = "sleeping",
                                                      !.wait = BackoffPeriod,
                                                      !.last = "failed",
                                                      !.bad = @ + 1]]
               /\ UNCHANGED <<mgr_stats, mgr_metrics>>
    /\ UNCHANGED <<mgr_is_running, mgr_producer, ingestors, mgr_frame, mgr_last,
                   mgr_calls, last_ingest, ingests, vars, batchVars, extVars>>

\* What one ingest_data call does to the ingestor: it emits n records, or it
\* fails, counts the error and re-raises.
IngestOutcomes == {[ok |-> FALSE, n |-> 0], [ok |-> TRUE, n |-> 1]}
ingest_data(ing, source_config, o) ==
    [ing EXCEPT !.invoked = @ + 1,
                !.config = source_config,
                !.records_ingested = @ + o.n,
                !.processing_errors = IF o.ok THEN @ ELSE @ + 1]

\* Faulty variant: an unknown source type falls back to the CSV ingestor.
ingest_from_sourceFallsBack(source_type, source_config) ==
    /\ ingests < MaxIngests
    /\ ingests' = ingests + 1
    /\ LET k == IF source_type \in Registered THEN source_type ELSE "csv" IN
       IF k \notin Registered
       THEN /\ last_ingest' = [kind |-> source_type, config |-> source_config,
                               raised |-> TRUE, error |-> "ValueError"]
            /\ UNCHANGED ingestors
       ELSE \E o \in IngestOutcomes :
               /\ ingestors' = [ingestors EXCEPT ![k] = ingest_data(@, source_config, o)]
               /\ last_ingest' = [kind |-> source_type, config |-> source_config,
                                  raised |-> ~o.ok,
                                  error |-> IF o.ok THEN "none" ELSE "IngestFailure"]
    /\ UNCHANGED <<mgr_is_running, mgr_producer, mgr_stats, mgr_frame, mgr_last,
                   mgr_calls, agg, ticks, mgr_metrics, vars, batchVars, extVars>>

\* Faulty variant: a call that raises is counted in ingestion_errors.
ingest_from_sourceCounts(source_type, source_config) ==
    /\ ingests < MaxIngests
    /\ ingests' = ingests + 1
    /\ IF source_type \notin Registered
       THEN /\ last_ingest' = [kind |-> source_type, config |-> source_config,
                               raised |-> TRUE, error |-> "ValueError"]
            /\ UNCHANGED ingestors
       ELSE \E o \in IngestOutcomes :
               /\ ingestors' = [ingestors EXCEPT ![source_type] =
                                                     ingest_data(@, source_config, o)]
               /\ last_ingest' = [kind |-> source_type, config |-> source_config,
                                  raised |-> ~o.ok,
                                  error |-> IF o.ok THEN "none" ELSE "IngestFailure"]
    /\ mgr_stats' = [mgr_stats EXCEPT !.ingestion_errors =
                                          IF last_ingest'.raised THEN @ + 1 ELSE @]
    /\ UNCHANGED <<mgr_is_running, mgr_producer, mgr_frame, mgr_last,
                   mgr_calls, agg, ticks, mgr_metrics, vars, batchVars, extVars>>

\* ingest_from_source(source_type, source_config)
ingest_from_source(source_type, source_config) ==
    /\ ingests < MaxIngests
    /\ ingests' = ingests + 1
    /\ IF source_type \notin Registered
       THEN /\ last_ingest' = [kind |-> source_type, config |-> source_config,
                               raised |-> TRUE, error |-> "ValueError"]
            /\ UNCHANGED ingestors
       ELSE \E o \in IngestOutcomes :
               /\ ingestors' = [ingestors EXCEPT ![source_type] =
                                                     ingest_data(@, source_config, o)]
               /\ last_ingest' = [kind |-> source_type, config |-> source_config,
                                  raised |-> ~o.ok,
                                  error |-> IF o.ok THEN "none" ELSE "IngestFailure"]
    /\ UNCHANGED <<mgr_is_running, mgr_producer, mgr_stats, mgr_frame, mgr_last,
                   mgr_calls, agg, ticks, mgr_metrics, vars, batchVars, extVars>>

\* DataIngestionManager.__init__
CoordIdle ==
    /\ mgr_is_running = FALSE
    /\ mgr_producer = "None"
    /\ ingestors = <<>>
    /\ mgr_stats = [total_records_ingested |-> 0, ingestion_errors |-> 0,
                    active_sources |-> <<>>]
    /\ mgr_frame = NoFrame
    /\ mgr_last = NoCall
    /\ mgr_calls = 0
    /\ agg = <<>>
    /\ ticks = 0
    /\ mgr_metrics = [n |-> 0, total |-> 0, active |-> 0]
    /\ last_ingest = [kind |-> "none", config |-> "none", raised |-> FALSE,
                      error |-> "none"]
    /\ ingests = 0

\* ------------------------------------------------------- schema validation

MaxCells == 1      \* rows of the DataFrame handed to _validate_schema
MaxRows == 3       \* rows of one CSV file
MaxFiles == 2      \* *.csv files in the directory
MaxBatchSize == 2  \* batch_size of the source configuration
MaxCsvCalls == 2   \* ingest_data calls issued in one run

Fields == {"customer_id", "email"}

\* A cell as read_csv gives it: text that parses under every column type
\* ("val"), text that parses as neither a number nor a date ("junk"), and NaN
\* for an empty cell ("null").  After validation a cell may also hold the
\* text 'nan' ("nan") or a schema default.
Cells == {"val", "junk", "null"}

\* The 'default' of a field's configuration: "None" when it declares none.
Defaults == {"None", "", "dflt"}

\* A field's configuration.  required is "unset" when the key is not given.
FieldConfigs ==
    [required : {"unset", "yes", "no"},
     type : {"None", "string", "numeric", "datetime"},
     default : Defaults]

Schemas == UNION {[cols -> FieldConfigs] : cols \in SUBSET Fields}

\* A DataFrame: its row count and, per column it has, the cells top down.
Frames(n) == UNION {[n : {n}, col : [cols -> [1..n -> Cells]]] : cols \in SUBSET Fields}

NoFrameData == [n |-> 0, col |-> <<>>]

\* config.get('required', True)
required_columns(s) == {c \in DOMAIN s : s[c].required # "no"}

missing_columns(d, s) == required_columns(s) \ DOMAIN d.col

\* pd.to_datetime / pd.to_numeric with errors='coerce', and astype(str).
Coerce(type, cell) ==
    CASE type \in {"datetime", "numeric"} ->
             IF cell = "junk" THEN "null" ELSE cell
      [] type = "string" -> IF cell = "null" THEN "nan" ELSE cell
      [] OTHER -> cell

\* df[column].fillna(default_value), when the default is not None.
Fill(default, cell) ==
    IF default # "None" /\ cell = "null" THEN default ELSE cell

SchemaRaised == [raised |-> TRUE, df |-> NoFrameData]

_validate_schema(d, s) ==
    IF missing_columns(d, s) # {}
    THEN SchemaRaised
    ELSE [raised |-> FALSE,
          df |-> [d EXCEPT !.col =
                    [c \in DOMAIN d.col |->
                        IF c \in DOMAIN s
                        THEN [k \in 1..d.n |->
                                 Fill(s[c].default,
                                      Coerce(s[c].type, d.col[c][k]))]
                        ELSE d.col[c]]]]

NotCalled == [called |-> FALSE, raised |-> FALSE, df |-> NoFrameData]

\* One call of _validate_schema on the arguments at hand.
ValidateSchema ==
    /\ validated = NotCalled
    /\ validated' = [called |-> TRUE,
                     raised |-> _validate_schema(df, schema).raised,
                     df |-> _validate_schema(df, schema).df]
    /\ UNCHANGED <<df, schema, vars, batchVars, coordVars, csvVars, statusVars>>

\* ------------------------------------------------------------ CSV ingestion

\* A file of the directory: whether read_csv can read it, and its content.
Table(n) == [n |-> n, col |-> [c \in Fields |-> [k \in 1..n |-> "val"]]]

\* A one-row file without the customer_id column.
NoIdTable == [n |-> 1, col |-> [c \in {"email"} |-> <<"val">>]]

Unreadable == [readable |-> FALSE, df |-> NoFrameData]

CsvCatalog ==
    {Unreadable, [readable |-> TRUE, df |-> NoIdTable]}
        \cup {[readable |-> TRUE, df |-> Table(n)] : n \in 0..MaxRows}

\* The schema of the customer source: customer_id required, email a string.
CustomerSchema ==
    [c \in Fields |->
        IF c = "customer_id"
        THEN [required |-> "yes", type |-> "None", default |-> "None"]
        ELSE [required |-> "unset", type |-> "string", default |-> "None"]]

\* source_config: 'schema' ({} when not given) and 'batch_size';
\* 'validate_data' keeps its default, True.
CsvConfigs == [schema : {<<>>, CustomerSchema}, batch_size : 1..MaxBatchSize]

NewCsvStats ==
    [files_processed |-> 0, records_ingested |-> 0, processing_errors |-> 0,
     last_processed_file |-> -1, processing_time |-> 0]

\* The ingest_data call in progress.  path is 0 for the directory and k for
\* its k-th file; queue holds the files still to process, the current one
\* first; n and i are len(df) and the loop variable of the batch loop;
\* events lists, for the current file, each batch sent (its row numbers) and
\* each asyncio.sleep (the empty list).
NoJob ==
    [pc |-> "idle", path |-> 0, queue |-> <<>>, n |-> 0, i |-> 0,
     events |-> <<>>]

NoCsvCall == [path |-> -1, raised |-> FALSE, file |-> 0, ok |-> FALSE,
              events |-> <<>>]

CsvIdle ==
    /\ csv_is_running = FALSE
    /\ csv_current_file = 0
    /\ csv_stats = NewCsvStats
    /\ csv_files = <<>>
    /\ csv_config = [schema |-> <<>>, batch_size |-> 1]
    /\ csv_job = NoJob
    /\ csv_sent = <<>>
    /\ csv_log = <<>>
    /\ csv_last = NoCsvCall
    /\ csv_calls = 0

SchemaIdle ==
    /\ df = NoFrameData
    /\ schema = <<>>
    /\ validated = NotCalled

CsvFrame == <<vars, batchVars, coordVars, schemaVars, statusVars>>

\* ingest_data up to the first file: Path(file_path).is_dir() chooses between
\* _process_directory, over directory.glob("*.csv"), and the single file.
csv_ingest_data(path) ==
    /\ csv_job.pc = "idle"
    /\ csv_calls < MaxCsvCalls
    /\ csv_calls' = csv_calls + 1
    /\ csv_job' = [NoJob EXCEPT
                     !.pc = IF path = 0 /\ csv_files = <<>>
                            THEN "return" ELSE "file",
                     !.path = path,
                     !.queue = IF path = 0
                               THEN [k \in 1..Len(csv_files) |-> k]
                               ELSE <<path>>]
    /\ UNCHANGED <<csv_is_running, csv_current_file, csv_stats, csv_files,
                   csv_config, csv_sent, csv_log, csv_last, CsvFrame>>

\* The current file is done with: the directory loop goes on to the next
\* file, and after the last one ingest_data gets control back.
AfterFile(job) ==
    IF Len(job.queue) > 1
    THEN [job EXCEPT !.pc = "file", !.queue = Tail(@)]
    ELSE [job EXCEPT !.pc = "return", !.queue = <<>>]

\* _process_single_file raised (its except clause has logged already).
\* Under _process_directory the file is logged and skipped; otherwise
\* ingest_data counts the error, logs and raises.
FileFailed(logged) ==
    LET file == Head(csv_job.queue) IN
    IF csv_job.path = 0
    THEN /\ csv_log' = csv_log \o logged \o <<"_process_directory">>
         /\ csv_job' = AfterFile(csv_job)
         /\ csv_last' = [csv_last EXCEPT !.file = file, !.ok = FALSE,
                                         !.events = csv_job.events]
         /\ UNCHANGED csv_stats
    ELSE /\ csv_log' = csv_log \o logged \o <<"ingest_data">>
         /\ csv_stats' = [csv_stats EXCEPT !.processing_errors = @ + 1]
         /\ csv_job' = NoJob
         /\ csv_last' = [path |-> csv_job.path, raised |-> TRUE,
                         file |-> file, ok |-> FALSE,
                         events |-> csv_job.events]

\* The batch loop is over: the file's counters are updated.
FileDone(events, len_df) ==
    LET file == Head(csv_job.queue) IN
    /\ csv_stats' = [csv_stats EXCEPT !.files_processed = @ + 1,
                                      !.records_ingested = @ + len_df]
    /\ csv_job' = AfterFile([csv_job EXCEPT !.events = events,
                                            !.n = len_df])
    /\ csv_last' = [csv_last EXCEPT !.file = file, !.ok = TRUE,
                                    !.events = events]
    /\ UNCHANGED csv_log

\* _process_single_file up to its batch loop: read_csv, then _validate_schema
\* when a schema is configured.
OpenFile ==
    /\ csv_job.pc = "file"
    /\ LET file == Head(csv_job.queue)
           f == csv_files[file]
           checked == IF csv_config.schema # <<>>
                      THEN _validate_schema(f.df, csv_config.schema)
                      ELSE [raised |-> FALSE, df |-> f.df]
       IN  /\ csv_current_file' = file
           /\ IF file > Len(csv_files) \/ ~csv_files[file].readable
              THEN FileFailed(<<"_process_single_file">>)
              ELSE IF checked.raised
              THEN FileFailed(<<"_validate_schema", "_process_single_file">>)
              ELSE IF checked.df.n = 0
              THEN FileDone(<<>>, 0)
              ELSE /\ csv_job' = [csv_job EXCEPT !.pc = "batch",
                                                 !.n = checked.df.n,
                                                 !.i = 0, !.events = <<>>]
                   /\ UNCHANGED <<csv_stats, csv_log, csv_last>>
    /\ UNCHANGED <<csv_is_running, csv_files, csv_config, csv_sent, csv_calls,
                   CsvFrame>>

\* Faulty variant: the slice always has batch_size rows.
BatchRowsFull(i, b, n) == [k \in 1..b |-> i + k]

\* df.iloc[i:i + batch_size]
BatchRows(i, b, n) ==
    [k \in 1..(IF i + b <= n THEN b ELSE n - i) |-> i + k]

\* _process_batch: one message per row, keyed by the file; then the ingest
\* task sleeps.  kafka_producer.send may raise at any row, and record_metric
\* after the last one: `done` rows have been sent by then, the except clause
\* logs and re-raises, and _process_single_file fails without having counted
\* the file.  may_raise tells whether the producer and the monitor can do
\* that in the run at hand.
SendBatch(may_raise) ==
    /\ csv_job.pc = "batch"
    /\ LET file == Head(csv_job.queue)
           rows == BatchRows(csv_job.i, csv_config.batch_size, csv_job.n)
       IN  \E done \in 0..Len(rows), ok \in BOOLEAN :
               /\ ok => done = Len(rows)
               /\ ~ok => may_raise
               /\ csv_sent' = csv_sent \o
                      [k \in 1..done |-> [key |-> file, row |-> rows[k]]]
               /\ IF ok
                  THEN /\ csv_job' = [csv_job EXCEPT !.pc = "sleep",
                                                     !.events = Append(@, rows)]
                       /\ UNCHANGED <<csv_stats, csv_log, csv_last>>
                  ELSE FileFailed(<<"_process_batch", "_process_single_file">>)
    /\ UNCHANGED <<csv_is_running, csv_current_file, csv_files, csv_config,
                   csv_calls, CsvFrame>>

\* asyncio.sleep(0.01) is over: the loop goes on with the next batch, or the
\* file is finished.
AfterSleep ==
    /\ csv_job.pc = "sleep"
    /\ LET i == csv_job.i + csv_config.batch_size
           events == Append(csv_job.events, <<>>)
       IN  IF i < csv_job.n
           THEN /\ csv_job' = [csv_job EXCEPT !.pc = "batch", !.i = i,
                                              !.events = events]
                /\ UNCHANGED <<csv_stats, csv_log, csv_last>>
           ELSE FileDone(events, csv_job.n)
    /\ UNCHANGED <<csv_is_running, csv_current_file, csv_files, csv_config,
                   csv_sent, csv_calls, CsvFrame>>

\* ingest_data after the files: the call's duration and path are recorded.
IngestReturn ==
    /\ csv_job.pc = "return"
    /\ \E e \in Elapsed :
           csv_stats' = [csv_stats EXCEPT !.processing_time = e,
                                          !.last_processed_file = csv_job.path]
    /\ csv_job' = NoJob
    /\ csv_last' = [csv_last EXCEPT !.path = csv_job.path, !.raised = FALSE]
    /\ UNCHANGED <<csv_is_running, csv_current_file, csv_files, csv_config,
                   csv_sent, csv_log, csv_calls, CsvFrame>>

\* ----------------------------------------------------------- status getters

Components == {"processor", "coordinator", "csv"}

\* The orchestrator's fields after __init__, and after initialize() got as
\* far as constructing the first `built` of monitor, warehouse_manager,
\* etl_processor and ingestion_manager (it assigns each before awaiting its
\* initialize).  start() sets is_running and, when a component call raises,
\* shutdown() clears it again before anything else runs.
NewOrch == [is_running |-> FALSE, built |-> 0]

Orchestrators ==
    {[is_running |-> FALSE, built |-> k] : k \in 0..4}
        \cup {[is_running |-> TRUE, built |-> 4]}

None == [none |-> TRUE]

\* The components in the order initialize() constructs them.
Parts == <<"monitor", "warehouse", "processor", "ingestion">>

\* main() before orchestrator.initialize(): no component exists.
NoPipe ==
    [main |-> "initialize", parts |-> [k \in 1..4 |-> "None"],
     step |-> 1, frames |-> <<>>, signals |-> 0, exit |-> 0]

NoView == [of |-> "none", at |-> None, raised |-> FALSE, written |-> FALSE]

Unobserved ==
    /\ observed = "none"
    /\ orch = NewOrch
    /\ view = NoView
    /\ pipe = NoPipe

\* ETLProcessor.get_status(): a new dict holding self.stats itself.
ProcStatus ==
    [is_running |-> is_running, current_job |-> "None", stats |-> stats,
     kafka_consumer_connected |-> kafka_consumer # 0,
     kafka_producer_connected |-> kafka_producer # "None"]

\* CSVIngestor.get_status(): a new dict holding self.stats itself.
CsvStatus ==
    [is_running |-> csv_is_running, current_file |-> csv_current_file,
     stats |-> csv_stats]

\* get_status() of a registered ingestor.
IngestorStatus(k) ==
    [is_running |-> ingestors[k].is_running,
     records_ingested |-> ingestors[k].records_ingested,
     processing_errors |-> ingestors[k].processing_errors]

\* DataIngestionManager.get_status(): a new dict holding self.stats itself
\* and a new dict of the ingestors' statuses.
MgrStatus ==
    [is_running |-> mgr_is_running, stats |-> mgr_stats,
     ingestors |-> [k \in Registered |-> IngestorStatus(k)],
     kafka_producer_connected |-> mgr_producer # "None"]

\* DataIngestionManager.get_ingestion_stats(): a new dict of the counters'
\* values, the active_sources list itself and the ingestors' get_stats().
MgrIngestionStats ==
    [total_records |-> mgr_stats.total_records_ingested,
     errors |-> mgr_stats.ingestion_errors,
     active_sources |-> mgr_stats.active_sources,
     ingestor_stats |-> [k \in Registered |-> ingestors[k].records_ingested]]

\* Faulty variant: the components' getters are called without the None test.
PipelineStatusUnguarded ==
    [raised |-> orch.built < 4,
     at |-> [is_running |-> orch.is_running, ingestion |-> MgrStatus,
             processing |-> ProcStatus, warehouse |-> None,
             monitoring |-> None]]

\* ETLPipelineOrchestrator.get_pipeline_status(): each component's
\* get_status(), or None for a component not constructed yet.
PipelineStatus ==
    [raised |-> FALSE,
     at |-> [is_running |-> orch.is_running,
             ingestion |-> IF orch.built >= 4 THEN MgrStatus ELSE None,
             processing |-> IF orch.built >= 3 THEN ProcStatus ELSE None,
             warehouse |-> IF orch.built >= 2
                           THEN [component |-> "warehouse"] ELSE None,
             monitoring |-> IF orch.built >= 1
                            THEN [component |-> "monitor"] ELSE None]]

Getters ==
    {"processor.get_status", "processor.get_stats", "csv.get_status",
     "csv.get_stats", "coordinator.get_status",
     "coordinator.get_ingestion_stats", "orchestrator.get_pipeline_status"}

\* What getter g returns in the current state.
Returned(g) ==
    CASE g = "processor.get_status" -> [raised |-> FALSE, at |-> ProcStatus]
      [] g = "processor.get_stats" -> [raised |-> FALSE, at |-> stats]
      [] g = "csv.get_status" -> [raised |-> FALSE, at |-> CsvStatus]
      [] g = "csv.get_stats" -> [raised |-> FALSE, at |-> csv_stats]
      [] g = "coordinator.get_status" -> [raised |-> FALSE, at |-> MgrStatus]
      [] g = "coordinator.get_ingestion_stats" ->
             [raised |-> FALSE, at |-> MgrIngestionStats]
      [] g = "orchestrator.get_pipeline_status" -> PipelineStatus

\* A getter is an ordinary method: it runs while no task is between two
\* suspension points.
BetweenTasks == ctl = 0 /\ csv_job.pc \in {"idle", "sleep"}

\* One getter call; the caller keeps what it got.
GetterCall(g) ==
    /\ BetweenTasks
    /\ view = NoView
    /\ view' = [of |-> g, at |-> Returned(g).at, raised |-> Returned(g).raised,
                written |-> FALSE]
    /\ UNCHANGED <<observed, orch, pipe, vars, batchVars, coordVars, csvVars,
                   schemaVars>>

\* The value the caller holds as it reads now: where the getter handed out
\* one of the component's own dicts, that dict's current content.
Seen ==
    CASE view.of = "processor.get_stats" -> stats
      [] view.of = "processor.get_status" -> [view.at EXCEPT !.stats = stats]
      [] view.of = "csv.get_stats" -> csv_stats
      [] view.of = "csv.get_status" -> [view.at EXCEPT !.stats = csv_stats]
      [] view.of = "coordinator.get_status" ->
             [view.at EXCEPT !.stats = mgr_stats]
      [] view.of = "orchestrator.get_pipeline_status" ->
             [view.at EXCEPT
                !.processing = IF @ = None THEN @
                               ELSE [@ EXCEPT !.stats = stats],
                !.ingestion = IF @ = None THEN @
                              ELSE [@ EXCEPT !.stats = mgr_stats]]
      [] OTHER -> view.at

\* The caller increments the error counter in the statistics it was handed:
\* in the component's dict where the value shares it, else in the copy.
CallerWrites ==
    /\ BetweenTasks
    /\ view.of # "none"
    /\ ~view.written
    /\ view' = [view EXCEPT !.written = TRUE]
    /\ CASE view.of \in {"processor.get_stats", "processor.get_status"} ->
                /\ stats' = [stats EXCEPT !["processing_errors"] = @ + 1]
                /\ UNCHANGED <<csv_stats, mgr_stats>>
         [] view.of \in {"csv.get_stats", "csv.get_status"} ->
                /\ csv_stats' = [csv_stats EXCEPT !.processing_errors = @ + 1]
                /\ UNCHANGED <<stats, mgr_stats>>
         [] view.of = "coordinator.get_status" ->
                /\ mgr_stats' = [mgr_stats EXCEPT !.ingestion_errors = @ + 1]
                /\ UNCHANGED <<stats, csv_stats>>
         [] OTHER -> UNCHANGED <<stats, csv_stats, mgr_stats>>
    /\ UNCHANGED <<observed, orch, pipe, batchVars, schemaVars,
                   procVars, raw, offset, tasks, ctl, histVars, trail,
                   last_call, calls,
                   mgr_is_running, mgr_producer, ingestors, mgr_frame,
                   mgr_last, mgr_calls, agg, ticks, mgr_metrics, last_ingest,
                   ingests,
                   csv_is_running, csv_current_file, csv_files, csv_config,
                   csv_job, csv_sent, csv_log, csv_last, csv_calls>>

\* CSVIngestor.start() and shutdown(): the flag, and a log line.
csv_start ==
    /\ BetweenTasks
    /\ csv_is_running' = TRUE
    /\ UNCHANGED <<csv_current_file, csv_stats, csv_files, csv_config, csv_job,
                   csv_sent, csv_log, csv_last, csv_calls, CsvFrame>>

csv_shutdown ==
    /\ BetweenTasks
    /\ csv_is_running' = FALSE
    /\ UNCHANGED <<csv_current_file, csv_stats, csv_files, csv_config, csv_job,
                   csv_sent, csv_log, csv_last, csv_calls, CsvFrame>>

\* ------------------------------------------------------------- orchestrator

MaxSignals == 1    \* SIGINT/SIGTERM deliveries in one run

\* shutdown() goes through the components in this order (positions in Parts).
ShutdownOrder == <<4, 3, 2, 1>>

\* start() starts these, in this order: ingestion manager, processor, monitor.
StartOrder == <<4, 3, 1>>

\* A shutdown() invocation: who made it, the position in ShutdownOrder it
\* stands before (0: not begun, 5: returned), the components whose shutdown
\* it called, and whether one of them raised.
NewFrame(by) == [by |-> by, at |-> 0, called |-> <<>>, failed |-> FALSE]

\* Components whose shutdown may raise: the warehouse manager and the
\* monitor.  The processor's and the coordinator's shutdown swallow every
\* exception.
MayFailShutdown == {1, 2}

OrchFrame ==
    <<vars, batchVars, coordVars, csvVars, schemaVars, observed, view>>

\* main() calls shutdown() and waits for it.
MainShutsDown(p, main) ==
    [p EXCEPT !.main = main, !.frames = Append(@, NewFrame("main"))]

\* The frame of the shutdown() main() is waiting for.
MainFrame ==
    CHOOSE f \in 1..Len(pipe.frames) :
        /\ pipe.frames[f].by = "main"
        /\ \A g \in 1..Len(pipe.frames) : pipe.frames[g].by = "main" => g <= f

\* initialize(), one component at a time: construct it, assign it, await its
\* initialize (the monitor's start).  A constructor that raises leaves the
\* field None; an initialize that raises leaves the component assigned.
\* Either way initialize() re-raises, main() sets exit status 1 and its
\* finally clause calls shutdown().
OrchInitialize ==
    /\ pipe.main = "initialize"
    /\ orch.built < 4
    /\ LET k == orch.built + 1 IN
       \E outcome \in {"ok", "constructor", "initialize"} :
           /\ orch' = [orch EXCEPT !.built = IF outcome = "constructor"
                                             THEN @ ELSE k]
           /\ pipe' =
                 IF outcome = "ok"
                 THEN [pipe EXCEPT !.parts[k] = "ready",
                                   !.main = IF k = 4 THEN "start"
                                            ELSE "initialize"]
                 ELSE MainShutsDown(
                          [pipe EXCEPT !.exit = 1,
                                       !.parts[k] = IF outcome = "constructor"
                                                    THEN @ ELSE "built"],
                          "finally")
    /\ UNCHANGED OrchFrame

\* start(): is_running = True, then the three component starts, each an
\* await.  One that raises sends start() to its except clause, which calls
\* shutdown() and then returns normally.
OrchStart ==
    /\ pipe.main = "start"
    /\ LET j == pipe.step
           c == StartOrder[j]
       IN  \E ok \in BOOLEAN :
               /\ orch' = [orch EXCEPT !.is_running = IF j = 1 THEN TRUE ELSE @]
               /\ pipe' =
                     IF ok
                     THEN [pipe EXCEPT !.parts[c] = "running",
                                       !.step = IF j = 3 THEN 1 ELSE j + 1,
                                       !.main = IF j = 3 THEN "loop" ELSE @]
                     ELSE MainShutsDown([pipe EXCEPT !.step = 1], "recover")
    /\ UNCHANGED OrchFrame

\* while self.is_running: await asyncio.sleep(1) -- start() returns once the
\* flag is found false, and main()'s finally clause calls shutdown().
OrchLoopEnds ==
    /\ pipe.main = "loop"
    /\ ~orch.is_running
    /\ pipe' = MainShutsDown(pipe, "finally")
    /\ UNCHANGED <<orch, OrchFrame>>

\* signal_handler: asyncio.create_task(orchestrator.shutdown()).
Signal ==
    /\ pipe.main # "exited"
    /\ pipe.signals < MaxSignals
    /\ pipe' = [pipe EXCEPT !.signals = @ + 1,
                            !.frames = Append(@, NewFrame("signal"))]
    /\ UNCHANGED <<orch, OrchFrame>>

\* Faulty variant: shutdown() calls a component's shutdown without testing
\* that the component exists.
ShutdownStepUnguarded(f) ==
    /\ pipe.main # "exited"
    /\ f \in 1..Len(pipe.frames)
    /\ pipe.frames[f].at < 5
    /\ LET at == pipe.frames[f].at IN
       IF at = 0
       THEN /\ orch' = [orch EXCEPT !.is_running = FALSE]
            /\ pipe' = [pipe EXCEPT !.frames[f].at = 1]
       ELSE LET c == ShutdownOrder[at] IN
            /\ UNCHANGED orch
            /\ IF c > orch.built
               THEN pipe' = [pipe EXCEPT !.frames[f].at = 5,
                                         !.frames[f].called = Append(@, c),
                                         !.frames[f].failed = TRUE]
               ELSE \E ok \in IF c \in MayFailShutdown THEN BOOLEAN ELSE {TRUE} :
                      pipe' =
                        IF ok
                        THEN [pipe EXCEPT !.parts[c] = "stopped",
                                          !.frames[f].called = Append(@, c),
                                          !.frames[f].at = at + 1]
                        ELSE [pipe EXCEPT !.frames[f].called = Append(@, c),
                                          !.frames[f].failed = TRUE,
                                          !.frames[f].at = 5]
    /\ UNCHANGED OrchFrame

\* shutdown(), one await at a time: is_running = False, then for each
\* component in ShutdownOrder that is not None, await its shutdown.  One that
\* raises ends the try block; the except clause logs and shutdown() returns.
ShutdownStep(f) ==
    /\ pipe.main # "exited"
    /\ f \in 1..Len(pipe.frames)
    /\ pipe.frames[f].at < 5
    /\ LET at == pipe.frames[f].at IN
       IF at = 0
       THEN /\ orch' = [orch EXCEPT !.is_running = FALSE]
            /\ pipe' = [pipe EXCEPT !.frames[f].at = 1]
       ELSE LET c == ShutdownOrder[at] IN
            /\ UNCHANGED orch
            /\ IF c > orch.built
               THEN pipe' = [pipe EXCEPT !.frames[f].at = at + 1]
               ELSE \E ok \in IF c \in MayFailShutdown THEN BOOLEAN ELSE {TRUE} :
                      pipe' =
                        IF ok
                        THEN [pipe EXCEPT !.parts[c] = "stopped",
                                          !.frames[f].called = Append(@, c),
                                          !.frames[f].at = at + 1]
                        ELSE [pipe EXCEPT !.frames[f].called = Append(@, c),
                                          !.frames[f].failed = TRUE,
                                          !.frames[f].at = 5]
    /\ UNCHANGED OrchFrame

\* The shutdown() main() awaited has returned: after start()'s except clause
\* main() goes on to its finally clause; after that one main() is over, and
\* asyncio.run cancels whatever task is left.
MainResumes ==
    /\ pipe.main \in {"recover", "finally"}
    /\ pipe.frames[MainFrame].at = 5
    /\ pipe' = IF pipe.main = "recover"
               THEN MainShutsDown(pipe, "finally")
               ELSE [pipe EXCEPT !.main = "exited"]
    /\ UNCHANGED <<orch, OrchFrame>>

\* ------------------------------------------------------------ specifications
\* Everything outside the processor's consume path.
outside == <<batchVars, coordVars, extVars>>
world == <<vars, outside>>

\* The consume path: lifecycle calls and the consume-loop tasks.
Next ==
    \/ initialize /\ UNCHANGED outside
    \/ start /\ UNCHANGED outside
    \/ shutdown /\ UNCHANGED outside
    \/ \E t \in TaskIds : TaskBegin(t) /\ UNCHANGED outside
    \/ \E t \in TaskIds : TaskNext(t) /\ UNCHANGED outside
    \/ \E t \in TaskIds : TaskValidate(t) /\ UNCHANGED outside
    \/ \E t \in TaskIds : TaskTransform(t) /\ UNCHANGED outside
    \/ \E t \in TaskIds : TaskEnrich(t) /\ UNCHANGED outside
    \/ \E t \in TaskIds : TaskSend(t) /\ UNCHANGED outside
    \/ \E t \in TaskIds : TaskLoad(t) /\ UNCHANGED outside

\* The processor as constructed; no batch call and no coordinator activity.
ProcInit ==
    /\ Init
    /\ BatchIdle
    /\ CoordIdle
    /\ CsvIdle
    /\ SchemaIdle
    /\ Unobserved

Spec == ProcInit /\ [][Next]_world

\* Batch processing: process_batch calls on one list of records, before and
\* after the stages are wired by initialize().
BatchInit ==
    /\ Init
    /\ raw = <<>>
    /\ batch \in Batches
    /\ batch_calls = <<>>
    /\ CoordIdle
    /\ CsvIdle
    /\ SchemaIdle
    /\ Unobserved

BatchNext ==
    \/ process_batch
    \/ initialize /\ UNCHANGED outside

SpecBatch == BatchInit /\ [][BatchNext]_world

\* The ingestion coordinator: its lifecycle calls, its aggregation tasks and
\* ingest_from_source calls, interleaved at the awaits that may suspend.
CoordInit ==
    /\ Init
    /\ raw = <<>>
    /\ BatchIdle
    /\ CoordIdle
    /\ CsvIdle
    /\ SchemaIdle
    /\ Unobserved

CoordNext ==
    \/ MgrInitialize
    \/ MgrInitializeStep
    \/ MgrStart
    \/ MgrStartStep
    \/ MgrShutdown
    \/ MgrShutdownStep
    \/ \E t \in AggIds : AggTick(t)
    \/ \E t \in AggIds : AggExit(t)
    \/ \E k \in SourceKinds, c \in Configs : ingest_from_source(k, c)

SpecCoord == CoordInit /\ [][CoordNext]_world

\* The coordinator's lifecycle and its aggregation tasks alone.  A sleeping
\* aggregation task wakes when its sleep is over and the event loop, which no
\* coordinator operation blocks, runs it.
AggNext ==
    \/ MgrInitialize
    \/ MgrInitializeStep
    \/ MgrStart
    \/ MgrStartStep
    \/ MgrShutdown
    \/ MgrShutdownStep
    \/ \E t \in AggIds : AggTick(t)
    \/ \E t \in AggIds : AggExit(t)

AggStep(t) == AggTick(t) \/ AggExit(t)
SpecAgg ==
    CoordInit /\ [][AggNext]_world /\ \A t \in 1..MaxMgrCalls : WF_world(AggStep(t))

\* CSV ingestion: ingest_data calls, on the directory or on one file, over a
\* directory of files that does not change during the run.
CsvInit ==
    /\ Init
    /\ raw = <<>>
    /\ BatchIdle
    /\ CoordIdle
    /\ SchemaIdle
    /\ Unobserved
    /\ csv_is_running = FALSE
    /\ csv_current_file = 0
    /\ csv_stats = NewCsvStats
    /\ csv_files \in UNION {[1..n -> CsvCatalog] : n \in 0..MaxFiles}
    /\ csv_config \in CsvConfigs
    /\ csv_job = NoJob
    /\ csv_sent = <<>>
    /\ csv_log = <<>>
    /\ csv_last = NoCsvCall
    /\ csv_calls = 0

CsvNext ==
    \/ \E path \in 0..MaxFiles : csv_ingest_data(path)
    \/ OpenFile
    \/ SendBatch(FALSE)
    \/ AfterSleep
    \/ IngestReturn

\* CSV ingestion with a producer that accepts every record.
SpecCsv == CsvInit /\ [][CsvNext]_world

CsvSendNext ==
    \/ \E path \in 0..MaxFiles : csv_ingest_data(path)
    \/ OpenFile
    \/ SendBatch(TRUE)
    \/ AfterSleep
    \/ IngestReturn

\* CSV ingestion with a producer whose send may raise.
SpecCsvSend == CsvInit /\ [][CsvSendNext]_world

\* _validate_schema applied once to every frame and schema of the bounds.
SchemaInit ==
    /\ Init
    /\ raw = <<>>
    /\ BatchIdle
    /\ CoordIdle
    /\ CsvIdle
    /\ Unobserved
    /\ df \in UNION {Frames(n) : n \in 0..MaxCells}
    /\ schema \in Schemas
    /\ validated = NotCalled

SchemaNext == ValidateSchema

SpecSchema == SchemaInit /\ [][SchemaNext]_world

\* The getters, called at any point of a run that exercises one component:
\* the processor's lifecycle on an empty topic, the coordinator's lifecycle
\* and aggregation tasks, the CSV ingestor over a one-file directory, or the
\* orchestrator at any stage of constructing its components.
StatusInit ==
    /\ Init
    /\ raw = <<>>
    /\ BatchIdle
    /\ CoordIdle
    /\ SchemaIdle
    /\ csv_is_running = FALSE
    /\ csv_current_file = 0
    /\ csv_stats = NewCsvStats
    /\ csv_files = <<[readable |-> TRUE, df |-> Table(1)]>>
    /\ csv_config = [schema |-> <<>>, batch_size |-> 1]
    /\ csv_job = NoJob
    /\ csv_sent = <<>>
    /\ csv_log = <<>>
    /\ csv_last = NoCsvCall
    /\ csv_calls = 0
    /\ observed \in Components \cup {"orchestrator"}
    /\ orch \in IF observed = "orchestrator" THEN Orchestrators ELSE {NewOrch}
    /\ pipe = NoPipe
    /\ view = NoView

ProcessorRuns ==
    /\ observed = "processor"
    /\ \/ initialize
       \/ start
       \/ shutdown
       \/ \E t \in TaskIds : TaskBegin(t)
       \/ \E t \in TaskIds : TaskNext(t)
    /\ UNCHANGED outside

CoordinatorRuns == observed = "coordinator" /\ AggNext

CsvRuns ==
    /\ observed = "csv"
    /\ \/ csv_start
       \/ csv_shutdown
       \/ \E path \in 0..1 : csv_ingest_data(path)
       \/ OpenFile
       \/ SendBatch(FALSE)
       \/ AfterSleep
       \/ IngestReturn

StatusNext ==
    \/ ProcessorRuns
    \/ CoordinatorRuns
    \/ CsvRuns
    \/ \E g \in Getters : GetterCall(g)
    \/ CallerWrites

SpecStatus == StatusInit /\ [][StatusNext]_world

\* main(): initialize, start, signals and the shutdown() invocations of the
\* start failure path, the signal handler and the finally clause.
OrchInit ==
    /\ Init
    /\ raw = <<>>
    /\ BatchIdle
    /\ CoordIdle
    /\ CsvIdle
    /\ SchemaIdle
    /\ Unobserved

OrchNext ==
    \/ OrchInitialize
    \/ OrchStart
    \/ OrchLoopEnds
    \/ Signal
    \/ \E f \in 1..(MaxSignals + 2) : ShutdownStep(f)
    \/ MainResumes

SpecOrch == OrchInit /\ [][OrchNext]_world

\* ---------------------------------------------------------- observations
RECURSIVE Count(_, _)
Count(seq, x) ==
    IF seq = <<>> THEN 0
    ELSE (IF seq[1] = x THEN 1 ELSE 0) + Count(Tail(seq), x)

RECURSIVE SumOver(_, _)
SumOver(n, c) == IF n = 0 THEN 0 ELSE Count(trail[n], c) + SumOver(n - 1, c)

RecordIds == 1..Len(raw)
Fetched(i) == i <= offset
Holding(i) == \E t \in TaskIds : tasks[t].cur = i
\* The loop took the record and has finished with it.
Handled(i) == Fetched(i) /\ ~Holding(i)
\* Taken from the topic and discarded by `break` before any stage ran.
Dropped(i) == Handled(i) /\ trail[i] = <<>>
Drained == offset = Len(raw) /\ \A i \in RecordIds : Handled(i)

StageBad(r) == r.bad # "none"
WellFormed(r) == r.bad = "none" /\ KeyEncodable(r)
SinkCauses == {"SinkFailure:publish", "SinkFailure:warehouse"}
FailureLogged(i, causes) ==
    \E k \in 1..Len(error_log) : error_log[k].rec = i /\ error_log[k].cause \in causes
SinkFailed(i) == FailureLogged(i, SinkCauses)
Published(i) == \E k \in 1..Len(published) : published[k].rec = i
\* Passed the three stages and both sinks.
FullyPassed(i) ==
    /\ Handled(i)
    /\ Published(i)
    /\ Count(load_calls, i) = 1
    /\ ~FailureLogged(i, SinkCauses \cup {"ValidationFailure", "TransformFailure", "EnrichFailure"})

StatsAreTrailSums == \A c \in Counters : stats[c] = SumOver(Len(raw), c)

\* A task ends by an exception only when it had no consumer to iterate.
NoRecordCrash == \A t \in TaskIds : tasks[t].pc = "crashed" => tasks[t].it = 0

\* ------------------------------------------------------------------ claims

\* C1: failure isolation.  When a stream in which exactly one record fails a
\* stage and all others are well-formed has been drained, with both sinks
\* healthy and no record discarded by a shutdown, records_processed is N-1
\* and processing_errors is 1; no record failure ever ends a task by an
\* exception.
C1_FailureIsolation ==
    /\ NoRecordCrash
    /\ ( /\ Len(raw) >= 1
         /\ Drained
         /\ Cardinality({i \in RecordIds : StageBad(raw[i])}) = 1
         /\ \A i \in RecordIds : StageBad(raw[i]) \/ WellFormed(raw[i])
         /\ \A i \in RecordIds : ~SinkFailed(i) /\ ~Dropped(i) )
       => ( /\ stats["records_processed"] = Len(raw) - 1
            /\ stats["processing_errors"] = 1 )

C1_Witness ==
    /\ Len(raw) >= 2
    /\ Drained
    /\ StageBad(raw[1])
    /\ \A i \in RecordIds : i # 1 => WellFormed(raw[i]) /\ FullyPassed(i)
    /\ stats["records_processed"] = Len(raw) - 1

\* C2: a record that fails at stage S has incremented exactly the counters of
\* the stages before S, once each, and processing_errors once; the counters
\* of S, of the later stages and records_processed are untouched by it.
\* Every change of a counter is made on behalf of one record.
ExpectedCounts(bad) ==
    [c \in Counters |->
        IF c = "processing_errors" THEN 1
        ELSE IF c = "records_validated" /\ bad \in {"transform", "enrich"} THEN 1
        ELSE IF c = "records_transformed" /\ bad = "enrich" THEN 1
        ELSE 0]

C2_StageFailureCounters ==
    /\ StatsAreTrailSums
    /\ \A i \in RecordIds :
         (Handled(i) /\ ~Dropped(i) /\ StageBad(raw[i])) =>
             \A c \in Counters : Count(trail[i], c) = ExpectedCounts(raw[i].bad)[c]

C2_Witness ==
    \E i \in RecordIds :
        /\ Handled(i)
        /\ raw[i].bad = "enrich"
        /\ trail[i] = <<"records_validated", "records_transformed", "processing_errors">>

\* C3 (as stated): a record that passes the three stages and both sinks
\* increments records_processed, records_validated, records_transformed and
\* records_enriched once each, in that order.
C3_ListedOrder ==
    \A i \in RecordIds :
        FullyPassed(i) =>
            trail[i] = <<"records_processed", "records_validated",
                         "records_transformed", "records_enriched">>

\* C3 (amended): such a record increments records_validated,
\* records_transformed, records_enriched and records_processed once each, in
\* that order (records_processed last, after both sinks), and
\* processing_errors not at all.
C3_PipelineOrder ==
    \A i \in RecordIds :
        FullyPassed(i) =>
            trail[i] = <<"records_validated", "records_transformed",
                         "records_enriched", "records_processed">>

C3_Witness == \E i \in RecordIds : FullyPassed(i) /\ stats["records_processed"] >= 1

\* C4: for every record that passed enrich, load_record is invoked exactly
\* once, whatever the downstream publish did.
C4_BothSinksAttempted ==
    \A i \in RecordIds :
        (Handled(i) /\ Count(trail[i], "records_enriched") = 1) =>
            Count(load_calls, i) = 1

\* C5: a step in which the publish or the warehouse load of a record fails
\* adds one to processing_errors, leaves records_processed alone and puts the
\* task back at the top of its loop; the record's own counters show one
\* error and no processed.
SinkFailureStep(t) ==
    /\ tasks[t].pc \in {"send", "load"}
    /\ Len(error_log') > Len(error_log)
    /\ error_log'[Len(error_log')].rec = tasks[t].cur
    /\ error_log'[Len(error_log')].cause \in SinkCauses

C5_SinkFailureCounted ==
    /\ [](\A i \in RecordIds :
            (Handled(i) /\ SinkFailed(i)) =>
                /\ Count(trail[i], "processing_errors") = 1
                /\ Count(trail[i], "records_processed") = 0)
    /\ [][\A t \in TaskIds :
            SinkFailureStep(t) =>
                /\ stats'["processing_errors"] = stats["processing_errors"] + 1
                /\ stats'["records_processed"] = stats["records_processed"]
                /\ tasks'[t].pc = "next"
                /\ ctl' = t]_vars

\* A warehouse failure was counted and the same task went on to handle the
\* next record.
C5_Witness ==
    \E i, j \in RecordIds :
        /\ i < j
        /\ Handled(i)
        /\ FailureLogged(i, {"SinkFailure:warehouse"})
        /\ FullyPassed(j)
        /\ Len(tasks) = 1

\* C6: the records published to the processed-data topic, and the records
\* handed to the warehouse, appear in the order of arrival on raw-data.
C6_PublishOrder ==
    /\ \A j, k \in 1..Len(published) : j < k => published[j].rec < published[k].rec
    /\ \A j, k \in 1..Len(load_calls) : j < k => load_calls[j] < load_calls[k]

\* Two tasks have each published a record and both wait for the warehouse.
C6_Witness ==
    /\ Len(published) >= 2
    /\ \E t, u \in TaskIds : t # u /\ tasks[t].pc = "load" /\ tasks[u].pc = "load"

\* C7: at most one record is in flight at any time.
C7_AtMostOneInFlight == Cardinality({t \in TaskIds : InFlight(t)}) <= 1

\* C8: initialize takes effect only from uninitialized, start only from
\* initialized.
Uninitialized ==
    ~is_running /\ ~wired /\ kafka_consumer = 0 /\ kafka_producer = "None"
Initialized ==
    /\ ~is_running
    /\ wired
    /\ kafka_consumer # 0
    /\ consumers[kafka_consumer] = "open"
    /\ kafka_producer = "open"
IsCall(op) == calls' = calls + 1 /\ last_call'.op = op

C8_LifecycleGuards ==
    [][ /\ (IsCall("initialize") /\ ~Uninitialized) =>
               UNCHANGED <<kafka_consumer, kafka_producer, consumers, wired>>
        /\ (IsCall("start") /\ ~Initialized) =>
               (is_running' = is_running /\ tasks' = tasks) ]_vars

\* C9: shutdown never raises and leaves the processor not running; after a
\* shutdown whose closes succeeded no handle is open; a shutdown that
\* directly follows a shutdown (with the same close outcome) changes nothing
\* of the processor.
C9_ShutdownIdempotent ==
    /\ [](last_call.op = "shutdown" =>
            /\ ~last_call.raised
            /\ ~is_running
            /\ (last_call.fault = "none" =>
                    /\ kafka_producer # "open"
                    /\ (kafka_consumer # 0 => consumers[kafka_consumer] = "closed")))
    /\ [][(IsCall("shutdown") /\ last_call.op = "shutdown"
              /\ last_call'.fault = last_call.fault) =>
            UNCHANGED procVars]_vars

C9_Witness ==
    /\ last_call.op = "shutdown"
    /\ last_call.prev = "shutdown"
    /\ last_call.fault = "none"
    /\ kafka_consumer # 0
    /\ consumers[kafka_consumer] = "closed"
    /\ kafka_producer = "closed"

\* C10: the status does not report shut down (shutdown has returned, the
\* flag is false) while a record is in flight.
C10_NoInFlightAfterShutdown ==
    (last_call.op = "shutdown" /\ ~is_running) => \A t \in TaskIds : ~InFlight(t)

\* ---------------------------------------------------------- cooperative shutdown

\* The last lifecycle call was a shutdown: the flag is cleared and no start
\* has followed it.
FlagCleared == last_call.op = "shutdown" /\ ~is_running
Exited(t) == tasks[t].pc \in {"done", "crashed"}
\* The loop sits in the consumer's blocking iterator: the handle it iterates
\* is still open and the topic holds no further message, so the body of the
\* loop, where the flag is read, is not reached.
WaitingForMessage(t) ==
    /\ tasks[t].pc = "next"
    /\ consumers[tasks[t].it] = "open"
    /\ offset = Len(raw)
\* Task t takes the next message off the topic in this step.
Receives(t) == tasks[t].pc = "next" /\ offset' = offset + 1 /\ tasks'[t] # tasks[t]

\* C11 (as claimed): once shutdown has cleared the running flag, a record
\* received while the flag is cleared is discarded with no stage run and
\* nothing published for it, now or later, and every consume loop goes on to
\* exit: no loop is left waiting in the consumer where it cannot see the flag.
C11_NoStageAfterFlagCleared ==
    [][ /\ \A t \in TaskIds :
              (Receives(t) /\ ~is_running) =>
                  /\ tasks'[t].pc = "done"
                  /\ tasks'[t].cur = 0
                  /\ UNCHANGED <<stats, trail, histVars>>
        /\ \A i \in RecordIds :
              Dropped(i) =>
                  /\ trail'[i] = <<>>
                  /\ \A k \in 1..Len(published') : published'[k].rec # i ]_vars
C11_LoopExitsAfterShutdown ==
    FlagCleared => \A t \in TaskIds : Exited(t) \/ ~(ctl = t /\ WaitingForMessage(t))
C11_CooperativeShutdown ==
    C11_NoStageAfterFlagCleared /\ []C11_LoopExitsAfterShutdown

\* ---------------------------------------------------------- batch processing

\* What a record that passes the three stages comes out as.
Enriched(r) == enrich_record(transform_record(validate_record(r).rec).rec).rec
PassesStages(r) == r.bad = "none"
RECURSIVE Survivors(_)
Survivors(records) ==
    IF records = <<>> THEN <<>>
    ELSE LET rest == Survivors(Tail(records)) IN
         IF PassesStages(Head(records)) THEN <<Enriched(Head(records))>> \o rest
         ELSE rest

\* C12: process_batch returns exactly the enriched results of the input
\* records that pass validate, transform and enrich, in input order; every
\* other record is skipped (logged) and the call never raises.
C12_BatchReturnsSurvivors ==
    \A k \in 1..Len(batch_calls) :
        LET c == batch_calls[k] IN
        /\ ~c.raised
        /\ c.out = (IF c.wired THEN Survivors(batch) ELSE <<>>)
        /\ Len(c.out) + Len(c.skipped) = Len(batch)
        /\ \A n \in 1..Len(c.skipped) :
               ~c.wired \/ ~PassesStages(batch[c.skipped[n]])
\* A wired call on a batch whose first record fails a stage and whose second
\* record passes.
C12_Witness ==
    /\ Len(batch) = 2
    /\ ~PassesStages(batch[1])
    /\ PassesStages(batch[2])
    /\ \E k \in 1..Len(batch_calls) :
           batch_calls[k].wired /\ batch_calls[k].out = <<Enriched(batch[2])>>

MgrIdle == mgr_frame = NoFrame
\* The last coordinator lifecycle call has ended and it was op.
MgrEnded(op) == MgrIdle /\ mgr_last.op = op

\* C14: coordinator initialize constructs every ingestor of the registry and
\* calls initialize on each; it returns normally only when every one of them
\* initialized, and when one ingestor's initialize fails the call raises.
C14_InitializeAllOrRaise ==
    /\ mgr_frame.op = "initialize" => Registered = KindSet
    /\ MgrEnded("initialize") =>
          /\ mgr_last.failed # "none" => mgr_last.raised
          /\ ~mgr_last.raised =>
                /\ Registered = KindSet
                /\ mgr_last.visited = KindSet
                /\ \A n \in Registered : ingestors[n].initialized
\* An ingestor's initialize failed after the CSV ingestor's had succeeded.
C14_Witness ==
    /\ MgrEnded("initialize")
    /\ mgr_last.failed = "api"
    /\ mgr_last.raised
    /\ ingestors["csv"].initialized
    /\ ~ingestors["streaming"].initialized

\* ------------------------------------------------ initialization failures

\* C15: a failure while wiring the stages or opening the input or output
\* channel is raised by initialize to its caller, and the failed call leaves
\* the processor stopped: initialize itself never sets the running flag,
\* creates a consume task or touches a counter, so a processor whose
\* initialize has just failed processes nothing.
C15_InitializeFailureStep ==
    [][IsCall("initialize") =>
          /\ last_call'.fault # "none" => last_call'.raised
          /\ UNCHANGED <<is_running, tasks, stats, histVars>>]_vars
C15_InitializeFailureFatal ==
    /\ C15_InitializeFailureStep
    /\ []((last_call.op = "initialize" /\ last_call.fault # "none") =>
             /\ last_call.raised
             /\ (calls = 1 => ~is_running /\ tasks = <<>>))
\* A first initialize that failed opening the output channel, after the
\* input channel was opened.
C15_Witness ==
    /\ calls = 1
    /\ last_call.op = "initialize"
    /\ last_call.fault = "producer"
    /\ last_call.raised
    /\ kafka_consumer # 0
    /\ kafka_producer = "None"

\* ------------------------------------------------------- aggregation ticks

\* This step is a tick that published its two metrics.
Publishes == mgr_metrics'.n = mgr_metrics.n + 1
\* This step is a tick of task t that failed.
TickFails(t) == t \in AggIds /\ agg'[t].bad = agg[t].bad + 1

\* C16 (as claimed): every tick publishes as total the sum of the registered
\* ingestors' records_ingested counters, and as active-source count the
\* number of registered ingestors.
C16_TickPublishesSumAndCount ==
    [][Publishes =>
          /\ mgr_metrics'.total = total_records
          /\ mgr_metrics'.active = Cardinality(Registered)]_world
C16_TotalIsSum ==
    [][Publishes =>
          /\ mgr_metrics'.total = total_records
          /\ mgr_stats'.total_records_ingested = total_records]_world

\* Task t runs one iteration of its loop in this step.
Ticks(t) == t \in AggIds /\ ticks' = ticks + 1 /\ agg'[t] # agg[t]

\* C17: a failing tick does not end the aggregation task.  The failure is
\* caught and the task sleeps the backoff interval; the interval is the
\* backoff only after a failed tick and the normal period after a good one,
\* whatever happened in earlier ticks; and a task that wakes while the
\* coordinator is running performs a further tick.
C17_TickStep ==
    [][\A t \in AggIds :
          /\ TickFails(t) =>
                agg'[t].pc = "sleeping" /\ agg'[t].wait = BackoffPeriod
          /\ (agg[t].pc = "sleeping" /\ agg'[t] # agg[t] /\ mgr_is_running) =>
                Ticks(t) /\ agg'[t].pc = "sleeping"
          /\ agg'[t].pc = "done" => (agg[t].pc = "done" \/ ~mgr_is_running)]_world
C17_BadTickNeverEndsTask ==
    /\ C17_TickStep
    /\ [](\A t \in AggIds :
             /\ agg[t].pc = "sleeping" =>
                   agg[t].wait = (IF agg[t].last = "failed" THEN BackoffPeriod
                                  ELSE TickPeriod)
             /\ (agg[t].pc = "sleeping" /\ mgr_is_running /\ ticks < MaxTicks) =>
                   ENABLED AggTick(t))
\* A task whose first tick failed and whose next tick was good: it sleeps
\* the normal period again.
C17_Witness ==
    \E t \in AggIds :
        /\ agg[t].bad = 1
        /\ agg[t].last = "ok"
        /\ agg[t].pc = "sleeping"
        /\ agg[t].wait = TickPeriod
        /\ mgr_is_running

\* ------------------------------------------------------ coordinator shutdown

\* C18 (as claimed): when a coordinator shutdown has ended, shutdown has been
\* called on every registered ingestor and the output channel is released,
\* also when one ingestor's shutdown failed.
C18_ShutdownBestEffort ==
    MgrEnded("shutdown") =>
        /\ mgr_last.visited = Registered
        /\ mgr_producer # "open"

\* This step releases the output channel.
ReleasesChannel == mgr_producer = "open" /\ mgr_producer' = "closed"
AggAllExited == \A t \in AggIds : agg[t].pc = "done"

\* C19: shutdown clears the running flag first, then shuts the ingestors
\* down, then releases the channel: while a shutdown is under way the flag is
\* cleared, and the channel is released only in a step after which shutdown
\* has been called on every registered ingestor and none is running.  With
\* the flag cleared no tick publishes a metric, and unless a later start sets
\* the flag again every aggregation task eventually exits.
C19_ShutdownOrderStep ==
    [][/\ ReleasesChannel =>
             /\ ~mgr_is_running'
             /\ mgr_last'.op = "shutdown"
             /\ mgr_last'.visited = Registered
             /\ \A n \in Registered : ~ingestors'[n].is_running
       /\ (Publishes \/ \E t \in AggIds : Ticks(t)) => mgr_is_running]_world
C19_ShutdownOrder ==
    /\ C19_ShutdownOrderStep
    /\ [](mgr_frame.op = "shutdown" => ~mgr_is_running)
    /\ [](~mgr_is_running => <>(mgr_is_running \/ AggAllExited))
\* A shutdown of a started coordinator that released the channel after all
\* four ingestors, with the aggregation task exited after a published tick.
C19_Witness ==
    /\ MgrEnded("shutdown")
    /\ mgr_last.visited = KindSet
    /\ mgr_producer = "closed"
    /\ mgr_metrics.n >= 1
    /\ agg # <<>>
    /\ AggAllExited

\* ------------------------------------------------------- ingest_from_source

\* This step is an ingest_from_source(k, c) call.
IngestCall(k, c) ==
    /\ ingests' = ingests + 1
    /\ last_ingest'.kind = k
    /\ last_ingest'.config = c

\* C20: ingest_from_source with a source type that is not registered raises
\* the unknown-source-type error, invokes no ingestor and leaves every
\* ingestor's and the coordinator's statistics as they were; with a
\* registered type it invokes exactly that ingestor's ingest_data, once, with
\* the given config, and no other ingestor's.
C20_IngestDispatch ==
    [][\A k \in SourceKinds, c \in Configs :
          IngestCall(k, c) =>
              IF k \notin Registered
              THEN /\ last_ingest'.raised
                   /\ last_ingest'.error = "ValueError"
                   /\ UNCHANGED <<ingestors, mgr_stats>>
              ELSE /\ ingestors'[k].invoked = ingestors[k].invoked + 1
                   /\ ingestors'[k].config = c
                   /\ \A n \in Registered \ {k} : ingestors'[n] = ingestors[n]
                   /\ UNCHANGED mgr_stats]_world
\* An unknown source type was refused by a coordinator with four ingestors
\* registered.
C20_Witness ==
    /\ Registered = KindSet
    /\ last_ingest.kind = "ftp"
    /\ last_ingest.raised
    /\ last_ingest.error = "ValueError"
    /\ \A n \in Registered : ingestors[n].invoked = 0
\* A registered source type was served: that ingestor alone was invoked.
C20_WitnessRegistered ==
    /\ Registered = KindSet
    /\ last_ingest.kind = "api"
    /\ ingestors["api"].invoked = 1
    /\ ingestors["api"].config = "c2"
    /\ ingestors["csv"].invoked = 0

\* ------------------------------------------------------------- message key

\* Task t publishes its record in this step.
PublishesRecord(t) ==
    /\ TaskSend(t)
    /\ Len(published') = Len(published) + 1

\* C26 (as claimed): a published record is keyed by its id field when it has
\* one and by "unknown" when it has none, and the key never makes a record
\* fail: whenever a record that passed the stages stands at the publish step
\* with the producer open, the publish can succeed, whatever its id field.
C26_KeyNeverFailsRecord ==
    /\ \A k \in 1..Len(published) :
           published[k].key =
               (IF raw[published[k].rec].id = "absent" THEN "unknown"
                ELSE raw[published[k].rec].id)
    /\ \A t \in TaskIds :
           (tasks[t].pc = "send" /\ Scheduled(t) /\ kafka_producer = "open")
               => ENABLED PublishesRecord(t)

\* ------------------------------------------------------ terminal outcomes

CountedOnce(i) ==
    /\ Count(trail[i], "records_processed") + Count(trail[i], "processing_errors") = 1
    /\ \A c \in Counters : Count(trail[i], c) <= 1

\* C29 (as claimed): records_processed + processing_errors equals the number
\* of records the loop has taken from the stream and is done with, each of
\* them counted once and none processed twice; the raw-data topic is never
\* written by the processor.
C29_EveryTakenRecordCounted ==
    /\ [](/\ stats["records_processed"] + stats["processing_errors"]
                = Cardinality({i \in RecordIds : Handled(i)})
          /\ \A i \in RecordIds : Handled(i) => CountedOnce(i))
    /\ [][raw' = raw]_vars

\* C29 (amended): the same with the records that the loop took while the
\* running flag was cleared set aside: such a record is discarded by `break`
\* and is counted neither as processed nor as an error.
C29_EveryHandledRecordCounted ==
    /\ [](/\ stats["records_processed"] + stats["processing_errors"]
                = Cardinality({i \in RecordIds : Handled(i) /\ ~Dropped(i)})
          /\ \A i \in RecordIds : (Handled(i) /\ ~Dropped(i)) => CountedOnce(i)
          /\ \A i \in RecordIds :
                 Dropped(i) => \A t \in TaskIds : tasks[t].cur # i)
    /\ [][raw' = raw]_vars
\* One record was processed, the next was taken after shutdown and discarded.
C29_Witness ==
    /\ Len(raw) = 2
    /\ FullyPassed(1)
    /\ Dropped(2)
    /\ stats["records_processed"] = 1
    /\ stats["processing_errors"] = 0

\* ------------------------------------------------------- counter ordering

AtSuspension == ctl = 0
InFlightCount == Cardinality({t \in TaskIds : InFlight(t)})

\* C30 (as claimed): at every suspension point records_processed <=
\* records_enriched <= records_transformed <= records_validated, and
\* records_validated <= records_processed + processing_errors + 1 when a
\* record is in flight, + 0 when none is.
C30_CounterChain ==
    AtSuspension =>
        /\ stats["records_processed"] <= stats["records_enriched"]
        /\ stats["records_enriched"] <= stats["records_transformed"]
        /\ stats["records_transformed"] <= stats["records_validated"]
        /\ stats["records_validated"] <=
               stats["records_processed"] + stats["processing_errors"]
               + (IF InFlightCount > 0 THEN 1 ELSE 0)

\* ------------------------------------------------------- CSV observations

\* File k is one ingestion gets through: readable and passing validation.
ValidFile(k) ==
    /\ csv_files[k].readable
    /\ csv_config.schema # <<>> =>
           ~_validate_schema(csv_files[k].df, csv_config.schema).raised

\* The messages of file k: one per row, in row order, keyed by the file.
FileRows(k) == [r \in 1..csv_files[k].df.n |-> [key |-> k, row |-> r]]

\* The messages of the valid files among the first k, in directory order.
RECURSIVE ValidRows(_)
ValidRows(k) ==
    IF k = 0 THEN <<>>
    ELSE ValidRows(k - 1) \o (IF ValidFile(k) THEN FileRows(k) ELSE <<>>)

InvalidFiles == {k \in 1..Len(csv_files) : ~ValidFile(k)}

\* The first ingest_data call was on the directory and has returned.
DirectoryIngested ==
    /\ csv_calls = 1
    /\ csv_job = NoJob
    /\ csv_last.path = 0

\* C21: after directory ingestion over K valid and M invalid files, all the
\* records of the K valid files have been emitted and the statistics report
\* exactly M file-level errors.
C21_DirectoryIsolatesFailures ==
    DirectoryIngested =>
        /\ csv_sent = ValidRows(Len(csv_files))
        /\ csv_stats.processing_errors = Cardinality(InvalidFiles)

\* What holds of directory ingestion: the valid files are emitted in full,
\* every failing file is logged and skipped, the call returns normally.
C21_DirectoryEmitsValidFiles ==
    DirectoryIngested =>
        /\ csv_sent = ValidRows(Len(csv_files))
        /\ ~csv_last.raised
        /\ csv_stats.files_processed =
               Len(csv_files) - Cardinality(InvalidFiles)
        /\ Cardinality({k \in 1..Len(csv_log) :
                           csv_log[k] = "_process_directory"})
               = Cardinality(InvalidFiles)

C21_Witness ==
    /\ DirectoryIngested
    /\ Len(csv_files) = 2
    /\ ~ValidFile(1)
    /\ ValidFile(2)
    /\ Len(csv_sent) = 3

Ceil(n, b) == (n + b - 1) \div b

\* The first ingest_data call was on file k alone and has returned normally.
FileIngested(k) ==
    /\ csv_calls = 1
    /\ csv_job = NoJob
    /\ csv_last.path = k
    /\ ~csv_last.raised

\* C22: single-file ingestion of n records with batch size b emits every
\* record exactly once, in file order, in ceil(n/b) batches of b records (the
\* last possibly smaller), and the ingest task sleeps after every batch, so
\* between any two consecutive batches.
C22_BatchesInFileOrder ==
    /\ [](\A f \in 1..MaxFiles :
              FileIngested(f) =>
                  LET n == csv_files[f].df.n
                      b == csv_config.batch_size
                      ev == csv_last.events
                  IN  /\ csv_sent = FileRows(f)
                      /\ Len(ev) = 2 * Ceil(n, b)
                      /\ \A j \in 1..Ceil(n, b) :
                             /\ ev[2 * j] = <<>>
                             /\ Len(ev[2 * j - 1]) =
                                    (IF j * b <= n THEN b ELSE n - (j - 1) * b)
                             /\ \A k \in 1..Len(ev[2 * j - 1]) :
                                    ev[2 * j - 1][k] = (j - 1) * b + k)
    /\ [][csv_sent' # csv_sent =>
              csv_job.pc = "batch" /\ csv_job'.pc = "sleep"]_world

C22_Witness ==
    /\ \E f \in 1..MaxFiles : FileIngested(f) /\ csv_files[f].df.n = 3
    /\ csv_config.batch_size = 2
    /\ Len(csv_last.events) = 4

\* C23: every statistics counter of every component is monotonically
\* non-decreasing over any sequence of operations.
C23_CountersNeverDecrease ==
    [][/\ \A c \in StatKeys : stats'[c] >= stats[c]
       /\ \A c \in {"files_processed", "records_ingested", "processing_errors",
                    "processing_time"} : csv_stats'[c] >= csv_stats[c]
       /\ mgr_stats'.total_records_ingested >= mgr_stats.total_records_ingested
       /\ mgr_stats'.ingestion_errors >= mgr_stats.ingestion_errors]_world

\* The CSV ingestor's counters other than processing_time only grow.
C23_CsvCountsGrow ==
    [][\A c \in {"files_processed", "records_ingested", "processing_errors"} :
           csv_stats'[c] >= csv_stats[c]]_world

\* ---------------------------------------------------- schema observations

\* Column c is declared by the schema and the frame does not have it.
Lacks(c) == c \in DOMAIN schema /\ c \notin DOMAIN df.col

\* C27: validation raises when a field marked required is missing from the
\* input, and a field declared without a required flag is optional: its
\* absence does not make validation raise.
C27_OnlyMarkedFieldsRequired ==
    validated.called =>
        (validated.raised <=>
            \E c \in DOMAIN schema : schema[c].required = "yes" /\ Lacks(c))

\* What holds of the required check: validation raises exactly when a field
\* whose configuration does not say required: False is missing.
C27_MissingRequiredRaises ==
    validated.called =>
        (validated.raised <=>
            \E c \in DOMAIN schema : schema[c].required # "no" /\ Lacks(c))

\* Row k of column c holds no value once coerced: the column is absent, the
\* cell is empty, or its text does not parse under a numeric or datetime type.
NullAfterCoercion(c, k) ==
    \/ c \notin DOMAIN df.col
    \/ df.col[c][k] = "null"
    \/ df.col[c][k] = "junk" /\ schema[c].type \in {"numeric", "datetime"}

\* Column c is still null somewhere after defaulting.
StillNull(c) ==
    /\ schema[c].default = "None"
    /\ \E k \in 1..df.n : NullAfterCoercion(c, k)

\* Every field of the schema says whether it is required.
ExplicitSchema == \A c \in DOMAIN schema : schema[c].required # "unset"

\* C28: an optional field that is absent or null after coercion receives its
\* declared default (the empty string included) and validation succeeds; a
\* failed coercion gives null, not a failure; validation raises only for a
\* required field that is missing or still null after defaulting.
C28_DefaultsFilled ==
    (validated.called /\ ExplicitSchema) =>
        /\ validated.raised <=>
               \E c \in DOMAIN schema :
                   schema[c].required = "yes" /\ (Lacks(c) \/ StillNull(c))
        /\ ~validated.raised =>
               \A c \in DOMAIN schema :
                   (schema[c].required = "no" /\ schema[c].default # "None") =>
                       /\ c \in DOMAIN validated.df.col
                       /\ \A k \in 1..df.n :
                              NullAfterCoercion(c, k) =>
                                  validated.df.col[c][k] = schema[c].default

\* What holds of coercion and defaults: a numeric or datetime cell that does
\* not parse becomes null and never a failure, and a null cell of a column the
\* frame has, whose type is not string, receives the declared default.
C28_CoercionGivesNull ==
    (validated.called /\ ~validated.raised) =>
        \A c \in DOMAIN schema \cap DOMAIN df.col : \A k \in 1..df.n :
            (NullAfterCoercion(c, k) /\ schema[c].type # "string") =>
                validated.df.col[c][k] =
                    (IF schema[c].default = "None" THEN "null"
                     ELSE schema[c].default)

\* ---------------------------------------------------- status observations

\* The live statistics of the three components.
LiveStats == <<stats, csv_stats, mgr_stats>>

\* The caller writes into the value it holds.
CallerWrote == ~view.written /\ view'.written

\* C24: what get_stats and get_status return is a snapshot: the value the
\* caller holds does not change when the component goes on working, and a
\* caller writing into it does not change the component's statistics.
C24_GettersReturnSnapshots ==
    /\ [][view' = view => Seen' = Seen]_world
    /\ [][CallerWrote => LiveStats' = LiveStats]_world

\* What holds: get_ingestion_stats copies the coordinator's two counters, so
\* those stay as returned whatever the coordinator and the caller do next.
C24_IngestionStatsCountersCopied ==
    [][(view.of = "coordinator.get_ingestion_stats" /\ view'.of = view.of) =>
           /\ Seen'.total_records = Seen.total_records
           /\ Seen'.errors = Seen.errors
           /\ CallerWrote => LiveStats' = LiveStats]_world

\* A getter returns to its caller.
GetterReturns == view = NoView /\ view' # NoView

\* C25: get_status and get_stats of the processor, the coordinator, the CSV
\* ingestor and the orchestrator never raise, in whatever lifecycle state
\* they are called (before initialize included), and a call changes no
\* lifecycle flag, counter, channel handle or registry entry.
C25_GettersSideEffectFree ==
    /\ [](~view.raised)
    /\ [][GetterReturns =>
              UNCHANGED <<vars, coordVars, csvVars, orch, batchVars>>]_world

\* get_pipeline_status called before the orchestrator constructed anything.
C25_Witness ==
    /\ view.of = "orchestrator.get_pipeline_status"
    /\ orch.built = 0
    /\ view.at.processing = None

\* A getter called on a processor that is running, and on one never
\* initialized.
C25_WitnessRunning ==
    /\ view.of = "processor.get_status"
    /\ view.at.is_running
    /\ view.at.kafka_consumer_connected

\* ------------------------------------------------------------ loop liveness

\* Some consume task has not ended.
LoopAlive == \E t \in TaskIds : ~Exited(t)

\* C33: whenever the processor reports is_running after a start, a consume
\* loop task is alive; a loop ended by a stream-level failure does not leave
\* the processor reporting running.
C33_RunningImpliesLoopAlive == is_running => LoopAlive

\* ------------------------------------------------- coordinator bookkeeping

\* The aggregation tasks that have not ended.
AggAlive == {t \in AggIds : agg[t].pc # "done"}

\* C34: after any sequence of coordinator start and shutdown calls at most
\* one aggregation task is alive.
C34_OneAggregationTask == Cardinality(AggAlive) <= 1

\* How often name n occurs in the active-sources list.
Listed(n) ==
    Cardinality({k \in 1..Len(mgr_stats.active_sources) :
                    mgr_stats.active_sources[k] = n})

\* C35: once a coordinator lifecycle call has ended, the active-sources list
\* holds each registered ingestor name at most once and only names of
\* ingestors currently started, so its length never exceeds the number of
\* registered ingestors.
C35_ActiveSourcesAreStarted ==
    MgrIdle =>
        /\ \A n \in KindSet :
               /\ Listed(n) <= 1
               /\ Listed(n) = 1 => n \in Registered /\ ingestors[n].is_running
        /\ Len(mgr_stats.active_sources) <= Cardinality(Registered)

\* C38: no coordinator operation modifies ingestion_errors: it is 0 in every
\* reachable state, whatever ingest_from_source calls failed.
C38_IngestionErrorsUntouched == mgr_stats.ingestion_errors = 0

\* An ingest_from_source call on a registered ingestor failed: the failure
\* shows in that ingestor's processing_errors only.
C38_Witness ==
    /\ last_ingest.raised
    /\ last_ingest.error = "IngestFailure"
    /\ ingestors[last_ingest.kind].processing_errors = 1
    /\ mgr_stats.ingestion_errors = 0

\* ------------------------------------------------------ batch mode frame

\* A process_batch call returns in this step.
BatchCallReturns == Len(batch_calls') = Len(batch_calls) + 1

\* C37: a process_batch call changes none of the processor's statistics and
\* not its running flag, publishes nothing to the processed-record topic,
\* calls neither the warehouse nor the monitor, takes nothing from the live
\* stream and leaves the input sequence as it was.
C37_BatchLeavesProcessorAlone ==
    [][BatchCallReturns =>
           UNCHANGED <<stats, is_running, published, load_calls, metrics,
                       offset, raw, batch>>]_world

\* A call on a wired processor returned a survivor and skipped a record.
C37_Witness ==
    /\ Len(batch_calls) >= 1
    /\ batch_calls[1].wired
    /\ Len(batch_calls[1].out) >= 1
    /\ Len(batch_calls[1].skipped) >= 1
    /\ stats = [c \in StatKeys |-> 0]

\* ------------------------------------------------------- shutdown failures

\* C39: processor shutdown never raises and leaves is_running false even when
\* a close failed, and a failure closing the consumer does not keep the
\* producer from being closed.
C39_ShutdownClosesProducer ==
    last_call.op = "shutdown" =>
        /\ ~last_call.raised
        /\ ~is_running
        /\ last_call.fault = "consumer" => kafka_producer # "open"

\* What holds of the coordinator: its shutdown never raises and leaves its
\* flag false, also when an ingestor's shutdown failed.
C39_CoordinatorShutdownReturns ==
    MgrEnded("shutdown") => ~mgr_last.raised /\ ~mgr_is_running

\* The components a shutdown() invocation called are in ShutdownOrder.
InShutdownOrder(called) ==
    \A i, j \in 1..Len(called) : i < j => called[i] > called[j]

\* Every component that was constructed, in ShutdownOrder.
AllConstructed(called) ==
    /\ Len(called) = orch.built
    /\ \A i \in 1..Len(called) : called[i] = orch.built + 1 - i

\* C32: every shutdown() invocation, whether made by start()'s failure path,
\* by the signal handler or by main()'s finally clause, and however they
\* interleave, calls component shutdowns in the order ingestion manager,
\* processor, warehouse, monitor, and only of components that were
\* constructed; an invocation of main() that returned without a component
\* failure called every constructed component; a failing component shutdown
\* never reaches main() (the exit status is 1 only when initialize failed,
\* before anything ran); and when main() is over the orchestrator is not
\* running and, unless a component shutdown failed in the last invocation,
\* every constructed component is stopped, whatever invocations preceded or
\* overlapped it.
C32_ShutdownReverseOrderIdempotent ==
    /\ \A f \in 1..Len(pipe.frames) :
           LET fr == pipe.frames[f] IN
           /\ InShutdownOrder(fr.called)
           /\ \A i \in 1..Len(fr.called) : fr.called[i] <= orch.built
           /\ fr.failed => fr.at = 5
           /\ (fr.by = "main" /\ fr.at = 5 /\ ~fr.failed)
                  => AllConstructed(fr.called)
    /\ pipe.exit = 1 => \A k \in 1..4 : pipe.parts[k] # "running"
    /\ pipe.main = "exited" =>
           /\ ~orch.is_running
           /\ pipe.frames[MainFrame].at = 5
           /\ ~pipe.frames[MainFrame].failed =>
                  \A k \in 1..4 : pipe.parts[k] =
                      IF k <= orch.built THEN "stopped" ELSE "None"

\* main() is over after three shutdown() invocations -- start()'s failure
\* path, a signal and the finally clause -- one of which met a failing
\* component, with everything stopped in the end.
C32_Witness ==
    /\ pipe.main = "exited"
    /\ Len(pipe.frames) = 3
    /\ \E f \in 1..3 : pipe.frames[f].by = "signal" /\ pipe.frames[f].at = 5
    /\ \E f \in 1..3 : pipe.frames[f].failed
    /\ ~pipe.frames[MainFrame].failed
    /\ orch.built = 4
    /\ \A k \in 1..4 : pipe.parts[k] = "stopped"

\* A shutdown() that skipped a component that was never constructed.
C32_WitnessSkips ==
    /\ pipe.main = "exited"
    /\ orch.built = 2
    /\ pipe.frames[MainFrame].called = <<2, 1>>
    /\ pipe.parts = <<"stopped", "stopped", "None", "None">>

\* C36: whenever no ingest_data call is in progress, records_ingested equals
\* the number of records sent to the raw-data topic so far.
C36_CounterMatchesSent ==
    csv_job = NoJob => csv_stats.records_ingested = Len(csv_sent)

====
